---------------------------- MODULE Spec2Model ----------------------------
(***************************************************************************)
(* Model of the helper layer of the agentic web3 assistant                 *)
(* (src/mastra/agents/agentic_web3/helpers.ts and agent_tools.ts):         *)
(*   - withRetry, the bounded retry executor;                              *)
(*   - getTokenList / getAllNews, the two time-boxed caches;               *)
(*   - findToken, the reference matcher;                                   *)
(*   - analyzeHolderConcentration and the weighted aggregation of the      *)
(*     token risk report.                                                  *)
(* Each subsystem has its own specification; the variables of the other    *)
(* subsystems are parked in their idle value and left unchanged.           *)
(***************************************************************************)
EXTENDS Integers, Sequences, FiniteSets, TLC

VARIABLES
  \* ---- withRetry (helpers.ts:438-458) ----
  rpc,          \* position of the call: "idle","loop","pending","waiting","returned","thrown"
  maxRetries,   \* parameter maxRetries
  delayMs,      \* parameter delayMs
  attempt,      \* loop variable attempt
  lastError,    \* local lastError (NoError = null)
  invocations,  \* number of times operation() has been called (observer)
  raised,       \* the errors operation() has raised, in order (observer)
  resolved,     \* the values operation() has resolved to, in order (observer)
  waits,        \* the backoff delays that have been waited, in order (observer)
  outcome,      \* what the call returned or threw ("none" while running)
  \* ---- the two caches (helpers.ts:173-182, 243-284, 539-581) ----
  clock,            \* Date.now(), in ms since the process started
  ticks,            \* how often the clock has advanced (bounded)
  tokenListCache,   \* module variable tokenListCache (Null or a list)
  lastCacheUpdate,  \* module variable lastCacheUpdate
  newsCache,        \* module variable newsCache (Null or [data, timestamp])
  tcalls,           \* the getTokenList calls: position, local now, result
  ncalls,           \* the getAllNews calls: position, local now, the two
                    \* source promises, result
  tokenFetches,     \* the coins/list fetches issued, in order: start time,
                    \* calling slot, "pending"/"ok"/"failed" (observer)
  newsFetches,      \* the news refreshes issued, likewise (observer)
  lastGoodTokens,   \* list stored by the latest successful fetch (observer)
  \* ---- findToken (helpers.ts:286-351) ----
  mpc,          \* position of the call: "idle", "matching", "returned"
  tokens,       \* local tokens, the list getTokenList returned
  searchTerm,   \* parameter searchTerm
  found,        \* the value returned (Null for null)
  \* ---- analyzeHolderConcentration (helpers.ts:818-845) ----
  hpc,            \* position of the call: "idle", "called", "returned"
  holders,        \* parameter holders: the percentage of each holder, in
                  \* hundredths of a percent, in the order of the RPC reply
  holderAnalysis, \* the value returned: score and factors
  \* ---- the aggregation of tokenRiskAnalysisTool (agent_tools.ts:320-359) ----
  apc,              \* position: "idle", "analysed", "assessed"
  holderScore,      \* holderAnalysis.score
  transactionScore, \* transactionAnalysis.score
  liquidityScore,   \* liquidityAnalysis.score
  overallRiskScore, \* local overallRiskScore
  riskLevel,        \* local riskLevel
  \* ---- the merge of getAllNews (helpers.ts:547-569) ----
  npc,          \* position: "idle", "fetched", "merged"
  cryptoNews,   \* local cryptoNews, what fetchCryptoNews resolved to
  web3News,     \* local web3News, what fetchWeb3News resolved to
  newsResponse, \* local response
  \* ---- getRecentTransactions (helpers.ts:468-531) ----
  xpc,            \* position: "idle", "called", "signatures", "transactions", "returned"
  walletAddress,  \* parameter walletAddress
  sigAttempts,    \* failed attempts of the signature-history query
  signatures,     \* local signatures (Null until the query has resolved)
  txPromises,     \* the promises signatures.map(...) created, one per signature
  transactions,   \* the value returned (Null until the call returns)
  \* ---- the lookups and the tools that take an address (helpers.ts:207-241,
  \* ---- 719-779; agent_tools.ts:104-176, 299-375) ----
  opc,          \* position: "idle", "called", "balance", "activity", "tokenData",
                \* "holders", "transactions", "liquidity", "returned", "thrown"
  op,           \* the function or tool that was called
  opAddress,    \* its address argument (walletAddress, tokenAddress)
  rpcLog,       \* the outbound RPC calls issued so far, in order (observer)
  rpcAttempts,  \* failed attempts of the withRetry in progress
  locals,       \* locals of tokenRiskAnalysisTool.execute: holders,
                \* holderAnalysis, transactionAnalysis (Null until assigned)
  opResult,     \* Null, or what the call returned or threw
  \* ---- the sub-scores of the token risk report (helpers.ts:781-899;
  \* ---- agent_tools.ts:314-371) ----
  gpc,            \* position of execute: "idle", "verified", "holders",
                  \* "patterns", "returned"
  tokenHolders,   \* what getTokenHoldersDistribution returned
  patternFetch,   \* the transaction fetch of analyzeTransactionPatterns
  liquidityToken, \* what getOnChainTokenData settles to in analyzeLiquidity
  liquidityFetch, \* the transaction fetch of analyzeLiquidity
  analyses,       \* holderAnalysis, transactionAnalysis, liquidityAnalysis
  riskReport      \* Null, or the detailed metrics execute returned

retryVars == <<rpc, maxRetries, delayMs, attempt, lastError, invocations,
               raised, resolved, waits, outcome>>

cacheVars == <<clock, ticks, tokenListCache, lastCacheUpdate, newsCache,
               tcalls, ncalls, tokenFetches, newsFetches, lastGoodTokens>>

matcherVars == <<mpc, tokens, searchTerm, found>>

holderVars == <<hpc, holders, holderAnalysis>>

riskVars == <<apc, holderScore, transactionScore, liquidityScore,
              overallRiskScore, riskLevel>>

newsVars == <<npc, cryptoNews, web3News, newsResponse>>

txVars == <<xpc, walletAddress, sigAttempts, signatures, txPromises, transactions>>

opVars == <<opc, op, opAddress, rpcLog, rpcAttempts, locals, opResult>>

scoreVars == <<gpc, tokenHolders, patternFetch, liquidityToken, liquidityFetch, analyses, riskReport>>

vars == <<retryVars, cacheVars, matcherVars, holderVars, riskVars, newsVars, txVars, opVars, scoreVars>>

\* what the actions of one subsystem leave unchanged
nonRetryVars == <<cacheVars, matcherVars, holderVars, riskVars, newsVars, txVars, opVars, scoreVars>>
nonCacheVars == <<retryVars, matcherVars, holderVars, riskVars, newsVars, txVars, opVars, scoreVars>>
nonMatcherVars == <<retryVars, cacheVars, holderVars, riskVars, newsVars, txVars, opVars, scoreVars>>
nonHolderVars == <<retryVars, cacheVars, matcherVars, riskVars, newsVars, txVars, opVars, scoreVars>>
nonRiskVars == <<retryVars, cacheVars, matcherVars, holderVars, newsVars, txVars, opVars, scoreVars>>
nonNewsVars == <<retryVars, cacheVars, matcherVars, holderVars, riskVars, txVars, opVars, scoreVars>>
nonTxVars == <<retryVars, cacheVars, matcherVars, holderVars, riskVars, newsVars, opVars, scoreVars>>
nonOpVars == <<retryVars, cacheVars, matcherVars, holderVars, riskVars, newsVars, txVars, scoreVars>>
nonScoreVars == <<retryVars, cacheVars, matcherVars, holderVars, riskVars, newsVars, txVars, opVars>>

-----------------------------------------------------------------------------
(* Strings are sequences of one-character strings.                         *)

UpperCase == <<"A", "B", "C", "D", "E", "F", "G", "H", "I", "J", "K", "L", "M", "N", "O", "P", "Q", "R", "S", "T", "U", "V", "W", "X", "Y", "Z">>
LowerCase == <<"a", "b", "c", "d", "e", "f", "g", "h", "i", "j", "k", "l", "m", "n", "o", "p", "q", "r", "s", "t", "u", "v", "w", "x", "y", "z">>
Digits == {"0", "1", "2", "3", "4", "5", "6", "7", "8", "9"}
WhiteSpace == {" "}

UpperSet == {UpperCase[i] : i \in 1..Len(UpperCase)}
LowerSet == {LowerCase[i] : i \in 1..Len(LowerCase)}

\* the lower-case letter of each upper-case letter
LowerOf ==
  [c \in UpperSet |-> LowerCase[CHOOSE i \in 1..Len(UpperCase) : UpperCase[i] = c]]

ToLowerChar(c) == IF c \in UpperSet THEN LowerOf[c] ELSE c

\* String.prototype.toLowerCase
toLowerCase(s) == [i \in 1..Len(s) |-> ToLowerChar(s[i])]

\* String.prototype.trim
trim(s) ==
  LET keep == {i \in 1..Len(s) : s[i] \notin WhiteSpace} IN
  IF keep = {} THEN <<>>
  ELSE LET first == CHOOSE i \in keep : \A j \in keep : i <= j
           last == CHOOSE i \in keep : \A j \in keep : j <= i
       IN SubSeq(s, first, last)

\* String.prototype.includes
includes(s, q) ==
  \E i \in 1..(Len(s) - Len(q) + 1) : SubSeq(s, i, i + Len(q) - 1) = q

\* the characters matched by \w
WordChars == UpperSet \cup LowerSet \cup Digits \cup {"_"}
IsWordChar(c) == c \in WordChars

-----------------------------------------------------------------------------
(* withRetry                                                               *)

\* default of the parameter maxRetries
DefaultMaxRetries == 3
\* default of the parameter delayMs
DefaultDelayMs == 1000
\* largest maxRetries a caller passes in the model
MaxRetriesArg == 4

NoError == [at |-> 0, id |-> "null", isError |-> FALSE, wrapped |-> FALSE]

\* what an operation can throw: Error instances and other values
ErrIds == {"e1", "e2"}
\* what an operation can resolve to
RetValues == {"r1", "r2"}

\* the value thrown by invocation number n of the operation
Thrown(n, id, isErr) == [at |-> n, id |-> id, isError |-> isErr, wrapped |-> FALSE]

\* error instanceof Error ? error : new Error(String(error))
ToError(e) ==
  IF e.isError THEN e
  ELSE [at |-> e.at, id |-> e.id, isError |-> TRUE, wrapped |-> TRUE]

IdleRetry ==
  /\ rpc = "idle"
  /\ maxRetries = DefaultMaxRetries
  /\ delayMs = DefaultDelayMs
  /\ attempt = 0
  /\ lastError = NoError
  /\ invocations = 0
  /\ raised = <<>>
  /\ resolved = <<>>
  /\ waits = <<>>
  /\ outcome = [kind |-> "none"]

\* entry of withRetry: let lastError = null; attempt = 1
InitRetry ==
  /\ rpc = "loop"
  /\ maxRetries \in 1..MaxRetriesArg
  /\ delayMs = DefaultDelayMs
  /\ attempt = 1
  /\ lastError = NoError
  /\ invocations = 0
  /\ raised = <<>>
  /\ resolved = <<>>
  /\ waits = <<>>
  /\ outcome = [kind |-> "none"]

\* loop test attempt <= maxRetries, then operation() is called and awaited
CallOperation ==
  /\ rpc = "loop"
  /\ attempt <= maxRetries
  /\ rpc' = "pending"
  /\ invocations' = invocations + 1
  /\ UNCHANGED <<maxRetries, delayMs, attempt, lastError, raised, resolved,
                 waits, outcome>>
  /\ UNCHANGED nonRetryVars

\* a success that does not leave the loop (the missing return)
OperationResolvesNoReturn(v) ==
  /\ rpc = "pending"
  /\ rpc' = IF attempt = maxRetries THEN "returned" ELSE "waiting"
  /\ outcome' = [kind |-> "returned", value |-> v]
  /\ resolved' = Append(resolved, v)
  /\ UNCHANGED <<maxRetries, delayMs, attempt, lastError, invocations, raised, waits>>
  /\ UNCHANGED nonRetryVars

\* return await operation(): the promise resolves
OperationResolves(v) ==
  /\ rpc = "pending"
  /\ rpc' = "returned"
  /\ outcome' = [kind |-> "returned", value |-> v]
  /\ resolved' = Append(resolved, v)
  /\ UNCHANGED <<maxRetries, delayMs, attempt, lastError, invocations, raised, waits>>
  /\ UNCHANGED nonRetryVars

\* a catch block that keeps the first error instead of the last one
OperationRejectsKeepFirst(id, isErr) ==
  LET e == Thrown(invocations, id, isErr)
      kept == IF lastError = NoError THEN ToError(e) ELSE lastError IN
  /\ rpc = "pending"
  /\ raised' = Append(raised, e)
  /\ lastError' = kept
  /\ IF attempt = maxRetries
       THEN /\ rpc' = "thrown"
            /\ outcome' = [kind |-> "thrown", error |-> kept]
       ELSE /\ rpc' = "waiting"
            /\ UNCHANGED outcome
  /\ UNCHANGED <<maxRetries, delayMs, attempt, invocations, resolved, waits>>
  /\ UNCHANGED nonRetryVars

\* catch (error): lastError is set; on the last attempt break and
\* throw lastError, otherwise start the backoff timer
OperationRejects(id, isErr) ==
  LET e == Thrown(invocations, id, isErr) IN
  /\ rpc = "pending"
  /\ raised' = Append(raised, e)
  /\ lastError' = ToError(e)
  /\ IF attempt = maxRetries
       THEN /\ rpc' = "thrown"
            /\ outcome' = [kind |-> "thrown", error |-> ToError(e)]
       ELSE /\ rpc' = "waiting"
            /\ UNCHANGED outcome
  /\ UNCHANGED <<maxRetries, delayMs, attempt, invocations, resolved, waits>>
  /\ UNCHANGED nonRetryVars

\* the timer of delayMs * attempt fires, the retry is logged, attempt++
BackoffElapsed ==
  /\ rpc = "waiting"
  /\ waits' = Append(waits, delayMs * attempt)
  /\ attempt' = attempt + 1
  /\ rpc' = "loop"
  /\ UNCHANGED <<maxRetries, delayMs, lastError, invocations, raised, resolved,
                 outcome>>
  /\ UNCHANGED nonRetryVars

NextRetry ==
  \/ CallOperation
  \/ \E v \in RetValues : OperationResolves(v)
  \/ \E id \in ErrIds, isErr \in BOOLEAN : OperationRejects(id, isErr)
  \/ BackoffElapsed

-----------------------------------------------------------------------------
(* The news pipeline of getAllNews                                         *)

\* null and a present value
Null == <<>>
Some(x) == <<x>>

\* number of trending topics returned: slice(0, 5)
TopTopics == 5
\* words of at most this length are dropped: word.length > 3
ShortWord == 3

stopWords == {
  <<"t", "h", "e">>,
  <<"a">>,
  <<"a", "n">>,
  <<"a", "n", "d">>,
  <<"o", "r">>,
  <<"b", "u", "t">>,
  <<"i", "n">>,
  <<"o", "n">>,
  <<"a", "t">>,
  <<"t", "o">>,
  <<"f", "o", "r">>,
  <<"w", "i", "t", "h">>,
  <<"b", "y">>,
  <<"a", "b", "o", "u", "t">>,
  <<"a", "s">>,
  <<"o", "f">> }

\* Array.prototype.sort with a comparator (a, b) => key(b) - key(a), keys[i]
\* being the key of s[i]: the sort is stable, so equal keys keep their order
StableSortDesc(s, keys) ==
  LET F[i \in 0..Len(s)] ==
        IF i = 0 THEN <<>>
        ELSE LET prev == F[i - 1]
                 k == Cardinality({j \in 1..Len(prev) : keys[prev[j]] >= keys[i]})
             IN SubSeq(prev, 1, k) \o <<i>> \o SubSeq(prev, k + 1, Len(prev))
      order == F[Len(s)]
  IN [n \in 1..Len(s) |-> s[order[n]]]

\* the elements of s at the indices in K, in order
SelectIndices(s, K) ==
  LET F[i \in 0..Len(s)] ==
        IF i = 0 THEN <<>>
        ELSE IF i \in K THEN Append(F[i - 1], s[i]) ELSE F[i - 1]
  IN F[Len(s)]

\* the predicate with the titles compared as they are
SameArticleCaseSensitive(a, b) ==
  \/ a.title = b.title
  \/ a.url = b.url

\* the predicate of self.findIndex in the de-duplication
SameArticle(a, b) ==
  \/ toLowerCase(a.title) = toLowerCase(b.title)
  \/ a.url = b.url

\* self.findIndex(a => ...): the first index whose article matches
findIndex(self, article) ==
  CHOOSE i \in 1..Len(self) :
    /\ SameArticle(self[i], article)
    /\ \A j \in 1..(i - 1) : ~SameArticle(self[j], article)

\* allArticles.filter((article, index, self) => index === self.findIndex(...))
uniqueArticles(all) ==
  SelectIndices(all, {i \in 1..Len(all) : findIndex(all, all[i]) = i})

\* text.split(/\W+/): the maximal runs of word characters (the empty
\* strings split yields at the ends are dropped by the length filter)
splitWords(text) ==
  LET F[i \in 0..Len(text)] ==
        IF i = 0 THEN [done |-> <<>>, cur |-> <<>>]
        ELSE LET prev == F[i - 1] IN
             IF IsWordChar(text[i])
               THEN [done |-> prev.done, cur |-> Append(prev.cur, text[i])]
             ELSE IF prev.cur = <<>> THEN prev
             ELSE [done |-> Append(prev.done, prev.cur), cur |-> <<>>]
      r == F[Len(text)]
  IN IF r.cur = <<>> THEN r.done ELSE Append(r.done, r.cur)

\* the words counted when words of three characters are kept
countedWordsKeepShort(article) ==
  LET text == toLowerCase(article.title \o <<" ">> \o article.summary) IN
  SelectSeq(splitWords(text), LAMBDA w : Len(w) >= ShortWord /\ w \notin stopWords)

\* the words of one article that are counted
countedWords(article) ==
  LET text == toLowerCase(article.title \o <<" ">> \o article.summary) IN
  SelectSeq(splitWords(text), LAMBDA w : Len(w) > ShortWord /\ w \notin stopWords)

\* wordFrequency[word] = (wordFrequency[word] || 0) + 1 on an object whose
\* keys are kept in insertion order
countWord(freq, w) ==
  IF \E i \in 1..Len(freq) : freq[i].word = w
    THEN [i \in 1..Len(freq) |->
            IF freq[i].word = w THEN [freq[i] EXCEPT !.count = @ + 1] ELSE freq[i]]
    ELSE Append(freq, [word |-> w, count |-> 1])

countWords(freq, words) ==
  LET F[i \in 0..Len(words)] ==
        IF i = 0 THEN freq ELSE countWord(F[i - 1], words[i])
  IN F[Len(words)]

\* a key that Object.entries lists as an integer index: a canonical
\* decimal numeral (the words counted have more than 3 characters)
IsIndexKey(w) ==
  /\ \A i \in 1..Len(w) : w[i] \in Digits
  /\ w[1] # "0"
  /\ Len(w) <= 9

DigitValue(c) ==
  CHOOSE v \in 0..9 : <<"0", "1", "2", "3", "4", "5", "6", "7", "8", "9">>[v + 1] = c

NumeralValue(w) ==
  LET F[i \in 0..Len(w)] == IF i = 0 THEN 0 ELSE 10 * F[i - 1] + DigitValue(w[i])
  IN F[Len(w)]

\* Object.entries(wordFrequency): integer keys in ascending order first,
\* then the other keys in insertion order
entriesOf(freq) ==
  LET ints == SelectSeq(freq, LAMBDA e : IsIndexKey(e.word))
      strs == SelectSeq(freq, LAMBDA e : ~IsIndexKey(e.word))
      desc == StableSortDesc(ints, [n \in 1..Len(ints) |-> NumeralValue(ints[n].word)])
  IN [i \in 1..Len(desc) |-> desc[Len(desc) + 1 - i]] \o strs

analyzeTrendingTopics(articles) ==
  LET F[i \in 0..Len(articles)] ==
        IF i = 0 THEN <<>> ELSE countWords(F[i - 1], countedWords(articles[i]))
      entries == entriesOf(F[Len(articles)])
      sorted == StableSortDesc(entries, [n \in 1..Len(entries) |-> entries[n].count])
      top == SubSeq(sorted, 1, IF Len(sorted) < TopTopics THEN Len(sorted) ELSE TopTopics)
  IN [i \in 1..Len(top) |-> top[i].word]

\* the body of the try block of getAllNews once both sources have settled
NewsResponseOf(cryptoList, web3List, at) ==
  LET fetched == cryptoList \o web3List
      allArticles == StableSortDesc(fetched, [n \in 1..Len(fetched) |-> fetched[n].publishedAt])
      unique == uniqueArticles(allArticles)
  IN [articles |-> unique,
      totalResults |-> Len(unique),
      lastUpdated |-> at,
      trendingTopics |-> analyzeTrendingTopics(unique)]

-----------------------------------------------------------------------------
(* findToken, the reference matcher                                        *)

\* the alias table commonTokens, as <<ticker, id>> pairs
commonTokens == {
  <<<<"b", "t", "c">>,
    <<"b", "i", "t", "c", "o", "i", "n">>>>,
  <<<<"e", "t", "h">>,
    <<"e", "t", "h", "e", "r", "e", "u", "m">>>>,
  <<<<"u", "s", "d", "t">>,
    <<"t", "e", "t", "h", "e", "r">>>>,
  <<<<"u", "s", "d", "c">>,
    <<"u", "s", "d", "-", "c", "o", "i", "n">>>>,
  <<<<"b", "n", "b">>,
    <<"b", "i", "n", "a", "n", "c", "e", "c", "o", "i", "n">>>>,
  <<<<"s", "o", "l">>,
    <<"s", "o", "l", "a", "n", "a">>>>,
  <<<<"a", "d", "a">>,
    <<"c", "a", "r", "d", "a", "n", "o">>>>,
  <<<<"d", "o", "t">>,
    <<"p", "o", "l", "k", "a", "d", "o", "t">>>>,
  <<<<"l", "i", "n", "k">>,
    <<"c", "h", "a", "i", "n", "l", "i", "n", "k">>>>,
  <<<<"l", "t", "c">>,
    <<"l", "i", "t", "e", "c", "o", "i", "n">>>>,
  <<<<"x", "r", "p">>,
    <<"r", "i", "p", "p", "l", "e">>>>,
  <<<<"d", "o", "g", "e">>,
    <<"d", "o", "g", "e", "c", "o", "i", "n">>>>,
  <<<<"s", "h", "i", "b">>,
    <<"s", "h", "i", "b", "a", "-", "i", "n", "u">>>>,
  <<<<"m", "a", "t", "i", "c">>,
    <<"m", "a", "t", "i", "c", "-", "n", "e", "t", "w", "o", "r", "k">>>>,
  <<<<"a", "v", "a", "x">>,
    <<"a", "v", "a", "l", "a", "n", "c", "h", "e", "-", "2">>>>,
  <<<<"u", "n", "i">>,
    <<"u", "n", "i", "s", "w", "a", "p">>>>,
  <<<<"a", "t", "o", "m">>,
    <<"c", "o", "s", "m", "o", "s">>>>,
  <<<<"e", "t", "c">>,
    <<"e", "t", "h", "e", "r", "e", "u", "m", "-", "c", "l", "a", "s", "s", "i", "c">>>>,
  <<<<"x", "l", "m">>,
    <<"s", "t", "e", "l", "l", "a", "r">>>>,
  <<<<"v", "e", "t">>,
    <<"v", "e", "c", "h", "a", "i", "n">>>> }

\* entries of the coins list the matcher is exercised on
Bitcoin ==
  [id |-> <<"b", "i", "t", "c", "o", "i", "n">>,
   symbol |-> <<"b", "t", "c">>,
   name |-> <<"B", "i", "t", "c", "o", "i", "n">>]
BitcoinCash ==
  [id |-> <<"b", "i", "t", "c", "o", "i", "n", "-", "c", "a", "s", "h">>,
   symbol |-> <<"b", "c", "h">>,
   name |-> <<"B", "i", "t", "c", "o", "i", "n", " ", "C", "a", "s", "h">>]
WrappedBitcoin ==
  [id |-> <<"w", "r", "a", "p", "p", "e", "d", "-", "b", "i", "t", "c", "o", "i", "n">>,
   symbol |-> <<"w", "b", "t", "c">>,
   name |-> <<"W", "r", "a", "p", "p", "e", "d", " ", "B", "i", "t", "c", "o", "i", "n">>]
BtcId ==
  [id |-> <<"b", "t", "c">>,
   symbol |-> <<"B", "I", "T">>,
   name |-> <<"b", "c", "h">>]
BitName ==
  [id |-> <<"c", "a", "s", "h">>,
   symbol |-> <<"B", "T", "C">>,
   name |-> <<"B", "i", "t">>]

WrappedBtc ==
  [id |-> <<"w", "r", "a", "p", "p", "e", "d", "-", "t", "o", "k", "e", "n">>,
   symbol |-> <<"W", "B", "T", "C">>,
   name |-> <<"W", "r", "a", "p", "p", "e", "d", " ", "B", "T", "C">>]

TokenPool == {Bitcoin, BitcoinCash, WrappedBitcoin, BtcId, BitName, WrappedBtc}

\* longest coins list in the model
MaxCatalog == 3

\* the lists getTokenList can return: non-empty, ids unique
Catalogs ==
  {c \in UNION {[1..n -> TokenPool] : n \in 1..MaxCatalog} :
     \A i, j \in 1..Len(c) : i # j => c[i].id # c[j].id}

\* the search terms the matcher is exercised on
SearchTerms == {
  <<"b", "t", "c">>,
  <<"B", "T", "C", " ">>,
  <<" ", "B", "i", "t", "c", "o", "i", "n">>,
  <<"b", "i", "t">>,
  <<"B", "i", "t", "c", "o", "i", "n", " ", "C", "a", "s", "h">>,
  <<"b", "c", "h">>,
  <<"c", "a", "s", "h">>,
  <<"w", "b", "t", "c">>,
  <<"c", "o", "i", "n">>,
  <<"t", "c">>,
  <<"x", "y", "z">>,
  <<>> }

\* Array.prototype.find: the first element of seq that satisfies the
\* predicate, hit[i] telling whether seq[i] does, or undefined
find(seq, hit) ==
  IF \E i \in 1..Len(seq) : hit[i]
    THEN Some(seq[CHOOSE i \in 1..Len(seq) :
                    hit[i] /\ \A j \in 1..(i - 1) : ~hit[j]])
    ELSE Null

\* commonTokens[normalizedSearch]
aliasOf(q) ==
  IF \E p \in commonTokens : p[1] = q
    THEN Some((CHOOSE p \in commonTokens : p[1] = q)[2])
    ELSE Null

\* score weights of the partial match
IdScore == 3
SymbolScore == 2
NameScore == 1

\* the partial-match score with the weights of id and name exchanged
totalScoreNameFirst(token, q) ==
  (IF includes(token.id, q) THEN NameScore ELSE 0)
  + (IF includes(toLowerCase(token.symbol), q) THEN SymbolScore ELSE 0)
  + (IF includes(toLowerCase(token.name), q) THEN IdScore ELSE 0)

\* idScore + symbolScore + nameScore of one entry
totalScore(token, q) ==
  (IF includes(token.id, q) THEN IdScore ELSE 0)
  + (IF includes(toLowerCase(token.symbol), q) THEN SymbolScore ELSE 0)
  + (IF includes(toLowerCase(token.name), q) THEN NameScore ELSE 0)

\* tokens.map(...).filter(match => match.score > 0).sort(...)
partialMatches(list, q) ==
  LET matches == SelectSeq([i \in 1..Len(list) |->
                              [token |-> list[i], score |-> totalScore(list[i], q)]],
                           LAMBDA m : m.score > 0)
  IN StableSortDesc(matches, [n \in 1..Len(matches) |-> matches[n].score])

\* the cascade with the exact symbol match tried before the exact id match
findTokenSymbolFirst(list, term) ==
  LET normalizedSearch == trim(toLowerCase(term))
      alias == aliasOf(normalizedSearch)
      mappedToken == IF alias = Null THEN Null
                     ELSE find(list, [i \in 1..Len(list) |-> list[i].id = alias[1]])
      exactIdMatch == find(list, [i \in 1..Len(list) |-> list[i].id = normalizedSearch])
      exactSymbolMatch ==
        find(list, [i \in 1..Len(list) |-> toLowerCase(list[i].symbol) = normalizedSearch])
      exactNameMatch ==
        find(list, [i \in 1..Len(list) |-> toLowerCase(list[i].name) = normalizedSearch])
      partial == partialMatches(list, normalizedSearch)
  IN IF mappedToken # Null THEN mappedToken
     ELSE IF exactSymbolMatch # Null THEN exactSymbolMatch
     ELSE IF exactIdMatch # Null THEN exactIdMatch
     ELSE IF exactNameMatch # Null THEN exactNameMatch
     ELSE IF Len(partial) > 0 THEN Some(partial[1].token)
     ELSE Null

\* findToken after tokens = await getTokenList()
findToken(list, term) ==
  LET normalizedSearch == trim(toLowerCase(term))
      alias == aliasOf(normalizedSearch)
      mappedToken == IF alias = Null THEN Null
                     ELSE find(list, [i \in 1..Len(list) |-> list[i].id = alias[1]])
      exactIdMatch == find(list, [i \in 1..Len(list) |-> list[i].id = normalizedSearch])
      exactSymbolMatch ==
        find(list, [i \in 1..Len(list) |-> toLowerCase(list[i].symbol) = normalizedSearch])
      exactNameMatch ==
        find(list, [i \in 1..Len(list) |-> toLowerCase(list[i].name) = normalizedSearch])
      partial == partialMatches(list, normalizedSearch)
  IN IF mappedToken # Null THEN mappedToken
     ELSE IF exactIdMatch # Null THEN exactIdMatch
     ELSE IF exactSymbolMatch # Null THEN exactSymbolMatch
     ELSE IF exactNameMatch # Null THEN exactNameMatch
     ELSE IF Len(partial) > 0 THEN Some(partial[1].token)
     ELSE Null

IdleMatcher ==
  /\ mpc = "idle"
  /\ tokens = <<>>
  /\ searchTerm = <<>>
  /\ found = Null

\* a call findToken(searchTerm) whose getTokenList() has returned tokens
InitMatcher ==
  /\ mpc = "matching"
  /\ tokens \in Catalogs
  /\ searchTerm \in SearchTerms
  /\ found = Null

\* the synchronous rest of findToken
FindToken ==
  /\ mpc = "matching"
  /\ found' = findToken(tokens, searchTerm)
  /\ mpc' = "returned"
  /\ UNCHANGED <<tokens, searchTerm>>
  /\ UNCHANGED nonMatcherVars

NextMatcher == FindToken

-----------------------------------------------------------------------------
(* The two caches: getTokenList and getAllNews                             *)

CACHE_DURATION == 3600000
NEWS_CACHE_DURATION == 300000

\* the calls of each function that can be in progress together
CallIds == {1, 2}
\* how often the clock advances in a run
MaxTicks == 2
\* how many fetches of each cache are issued in a run
MaxFetches == 2

\* a slot of a function that is not called in the run
Unused == [pc |-> "unused", now |-> 0, kind |-> "none", value |-> <<>>]
UnusedNews == [pc |-> "unused", now |-> 0, crypto |-> <<>>, web3 |-> <<>>,
               kind |-> "none", value |-> <<>>]

\* the amounts by which the clock advances between two events: one
\* millisecond, or one millisecond less than the TTL of the cache in use
ClockSteps ==
  {1} \cup {CACHE_DURATION - 1 : c \in {c \in CallIds : tcalls[c].pc # "unused"}}
      \cup {NEWS_CACHE_DURATION - 1 : c \in {c \in CallIds : ncalls[c].pc # "unused"}}

\* what the coins/list request can come back with: a rejected fetch, a
\* non-OK status, or a JSON body (a list, an empty list, not an array)
CacheCatalogs == {<<Bitcoin, BitcoinCash>>, <<BitcoinCash, WrappedBitcoin, Bitcoin>>}
CoinsListReplies ==
  {[kind |-> "rejected", status |-> 0, isArray |-> FALSE, data |-> <<>>],
   [kind |-> "status", status |-> 429, isArray |-> FALSE, data |-> <<>>],
   [kind |-> "status", status |-> 500, isArray |-> FALSE, data |-> <<>>],
   [kind |-> "json", status |-> 200, isArray |-> FALSE, data |-> <<>>],
   [kind |-> "json", status |-> 200, isArray |-> TRUE, data |-> <<>>]}
  \cup {[kind |-> "json", status |-> 200, isArray |-> TRUE, data |-> c] :
          c \in CacheCatalogs}

\* the message of the error the try block of getTokenList raises for a
\* reply, "" when the reply is accepted
replyError(r) ==
  IF r.kind = "rejected" THEN "fetch failed"
  ELSE IF r.kind = "status"
    THEN IF r.status = 429 THEN "Rate limit exceeded" ELSE "HTTP error"
  ELSE IF ~r.isArray \/ Len(r.data) = 0 THEN "Invalid token list response"
  ELSE ""

\* articles the two news sources are exercised on
ArticleDefi ==
  [title |-> <<"D", "e", "F", "i">>,
   summary |-> <<"D", "e", "F", "i", " ", "N", "F", "T">>,
   url |-> "u1", publishedAt |-> 3000]
ArticleDefiLower ==
  [title |-> <<"d", "e", "f", "i">>,
   summary |-> <<"w", "i", "t", "h", " ", "n", "e", "w", "s">>,
   url |-> "u2", publishedAt |-> 2000]
ArticleSolana ==
  [title |-> <<"S", "o", "l", "a", "n", "a">>,
   summary |-> <<"2", "0", "2", "5">>,
   url |-> "u2", publishedAt |-> 1000]
ArticleToken ==
  [title |-> <<"T", "o", "k", "e", "n">>,
   summary |-> <<"t", "h", "e", " ", "s", "a", "l", "e">>,
   url |-> "u3", publishedAt |-> 2000]
\* what fetchCryptoNews and fetchWeb3News can resolve to: the mapped
\* articles, or [] after an error caught inside the source
SourceFailed == [ok |-> FALSE, articles |-> <<>>]
CryptoNewsResults ==
  {SourceFailed,
   [ok |-> TRUE, articles |-> <<ArticleSolana, ArticleDefi>>]}
Web3NewsResults ==
  {SourceFailed,
   [ok |-> TRUE, articles |-> <<ArticleToken, ArticleDefiLower>>]}

NoCall == [pc |-> "idle", now |-> 0, kind |-> "none", value |-> Null]
NoNewsCall == [pc |-> "idle", now |-> 0, crypto |-> Null, web3 |-> Null,
               kind |-> "none", value |-> Null]

\* the log entry of a fetch issued by slot c, and the log once the
\* pending fetch of slot c has settled
Issued(c, at) == [at |-> at, call |-> c, status |-> "pending"]
Settled(log, c, status) ==
  [i \in 1..Len(log) |->
     IF log[i].call = c /\ log[i].status = "pending"
       THEN [log[i] EXCEPT !.status = status] ELSE log[i]]

IdleCache ==
  /\ clock = 0
  /\ ticks = 0
  /\ tokenListCache = Null
  /\ lastCacheUpdate = 0
  /\ newsCache = Null
  /\ tcalls = [c \in CallIds |-> Unused]
  /\ ncalls = [c \in CallIds |-> UnusedNews]
  /\ tokenFetches = <<>>
  /\ newsFetches = <<>>
  /\ lastGoodTokens = Null

\* the module has been loaded: both caches are empty and no call is
\* running; the two caches share no variable, and a run calls one of the
\* two functions
InitCache ==
  /\ clock = 0
  /\ ticks = 0
  /\ tokenListCache = Null
  /\ lastCacheUpdate = 0
  /\ newsCache = Null
  /\ \/ tcalls = [c \in CallIds |-> NoCall] /\ ncalls = [c \in CallIds |-> UnusedNews]
     \/ tcalls = [c \in CallIds |-> Unused] /\ ncalls = [c \in CallIds |-> NoNewsCall]
  /\ tokenFetches = <<>>
  /\ newsFetches = <<>>
  /\ lastGoodTokens = Null

\* time passes
Tick(d) ==
  /\ ticks < MaxTicks
  /\ ticks' = ticks + 1
  /\ clock' = clock + d
  /\ UNCHANGED <<tokenListCache, lastCacheUpdate, newsCache, tcalls, ncalls,
                 tokenFetches, newsFetches, lastGoodTokens>>
  /\ UNCHANGED nonCacheVars

\* the cache test of getTokenList
TokenCacheFresh(now) ==
  tokenListCache # Null /\ (now - lastCacheUpdate) < CACHE_DURATION

\* getTokenList, cache hit: return tokenListCache
GetTokenListHit(c) ==
  /\ tcalls[c].pc \in {"idle", "returned", "thrown"}
  /\ TokenCacheFresh(clock)
  /\ tcalls' = [tcalls EXCEPT ![c] =
       [pc |-> "returned", now |-> clock, kind |-> "hit", value |-> tokenListCache]]
  /\ UNCHANGED <<clock, ticks, tokenListCache, lastCacheUpdate, newsCache,
                 ncalls, tokenFetches, newsFetches, lastGoodTokens>>
  /\ UNCHANGED nonCacheVars

\* a cache miss that waits for a request in flight instead of sending one
GetTokenListMissCoalesced(c) ==
  /\ tcalls[c].pc \in {"idle", "returned", "thrown"}
  /\ ~TokenCacheFresh(clock)
  /\ Len(tokenFetches) < MaxFetches
  /\ tcalls' = [tcalls EXCEPT ![c] =
       [pc |-> "fetching", now |-> clock, kind |-> "none", value |-> Null]]
  /\ tokenFetches' =
       IF \E i \in 1..Len(tokenFetches) : tokenFetches[i].status = "pending"
         THEN tokenFetches
         ELSE Append(tokenFetches, Issued(c, clock))
  /\ UNCHANGED <<clock, ticks, tokenListCache, lastCacheUpdate, newsCache,
                 ncalls, newsFetches, lastGoodTokens>>
  /\ UNCHANGED nonCacheVars

\* getTokenList, cache miss: the request is sent and awaited
GetTokenListMiss(c) ==
  /\ tcalls[c].pc \in {"idle", "returned", "thrown"}
  /\ ~TokenCacheFresh(clock)
  /\ Len(tokenFetches) < MaxFetches
  /\ tcalls' = [tcalls EXCEPT ![c] =
       [pc |-> "fetching", now |-> clock, kind |-> "none", value |-> Null]]
  /\ tokenFetches' = Append(tokenFetches, Issued(c, clock))
  /\ UNCHANGED <<clock, ticks, tokenListCache, lastCacheUpdate, newsCache,
                 ncalls, newsFetches, lastGoodTokens>>
  /\ UNCHANGED nonCacheVars

\* a catch block that answers a failure on the empty cache with an empty
\* list, which it caches
TokenFetchSettlesEmptyDefault(c, r) ==
  /\ tcalls[c].pc = "fetching"
  /\ IF replyError(r) = ""
       THEN /\ tokenListCache' = Some(r.data)
            /\ lastCacheUpdate' = tcalls[c].now
            /\ lastGoodTokens' = Some(r.data)
            /\ tcalls' = [tcalls EXCEPT ![c] =
                 [pc |-> "returned", now |-> tcalls[c].now, kind |-> "fetched",
                  value |-> Some(r.data)]]
       ELSE /\ tokenListCache' = IF tokenListCache # Null THEN tokenListCache ELSE Some(<<>>)
            /\ UNCHANGED <<lastCacheUpdate, lastGoodTokens>>
            /\ tcalls' = [tcalls EXCEPT ![c] =
                 [pc |-> "returned", now |-> tcalls[c].now,
                  kind |-> "stale", value |-> tokenListCache']]
  /\ tokenFetches' =
       Settled(tokenFetches, c, IF replyError(r) = "" THEN "ok" ELSE "failed")
  /\ UNCHANGED <<clock, ticks, newsCache, ncalls, newsFetches>>
  /\ UNCHANGED nonCacheVars

\* a catch block without the stale fallback: the error is always thrown
TokenFetchSettlesNoFallback(c, r) ==
  /\ tcalls[c].pc = "fetching"
  /\ IF replyError(r) = ""
       THEN /\ tokenListCache' = Some(r.data)
            /\ lastCacheUpdate' = tcalls[c].now
            /\ lastGoodTokens' = Some(r.data)
            /\ tcalls' = [tcalls EXCEPT ![c] =
                 [pc |-> "returned", now |-> tcalls[c].now, kind |-> "fetched",
                  value |-> Some(r.data)]]
       ELSE /\ UNCHANGED <<tokenListCache, lastCacheUpdate, lastGoodTokens>>
            /\ tcalls' = [tcalls EXCEPT ![c] =
                 [pc |-> "thrown", now |-> tcalls[c].now,
                  kind |-> replyError(r), value |-> Null]]
  /\ tokenFetches' =
       Settled(tokenFetches, c, IF replyError(r) = "" THEN "ok" ELSE "failed")
  /\ UNCHANGED <<clock, ticks, newsCache, ncalls, newsFetches>>
  /\ UNCHANGED nonCacheVars

\* the request settles: the rest of the try block, or the catch block
TokenFetchSettles(c, r) ==
  /\ tcalls[c].pc = "fetching"
  /\ IF replyError(r) = ""
       THEN /\ tokenListCache' = Some(r.data)
            /\ lastCacheUpdate' = tcalls[c].now
            /\ lastGoodTokens' = Some(r.data)
            /\ tcalls' = [tcalls EXCEPT ![c] =
                 [pc |-> "returned", now |-> tcalls[c].now, kind |-> "fetched",
                  value |-> Some(r.data)]]
       ELSE /\ UNCHANGED <<tokenListCache, lastCacheUpdate, lastGoodTokens>>
            /\ tcalls' = [tcalls EXCEPT ![c] =
                 IF tokenListCache # Null
                   THEN [pc |-> "returned", now |-> tcalls[c].now,
                         kind |-> "stale", value |-> tokenListCache]
                   ELSE [pc |-> "thrown", now |-> tcalls[c].now,
                         kind |-> replyError(r), value |-> Null]]
  /\ tokenFetches' =
       Settled(tokenFetches, c, IF replyError(r) = "" THEN "ok" ELSE "failed")
  /\ UNCHANGED <<clock, ticks, newsCache, ncalls, newsFetches>>
  /\ UNCHANGED nonCacheVars

\* the cache test of getAllNews
NewsCacheFresh(now) ==
  newsCache # Null /\ (now - newsCache[1].timestamp) < NEWS_CACHE_DURATION

\* getAllNews, cache hit: return newsCache.data
GetAllNewsHit(c) ==
  /\ ncalls[c].pc \in {"idle", "returned"}
  /\ NewsCacheFresh(clock)
  /\ ncalls' = [ncalls EXCEPT ![c] =
       [pc |-> "returned", now |-> clock, crypto |-> Null, web3 |-> Null,
        kind |-> "hit", value |-> Some(newsCache[1].data)]]
  /\ UNCHANGED <<clock, ticks, tokenListCache, lastCacheUpdate, newsCache,
                 tcalls, tokenFetches, newsFetches, lastGoodTokens>>
  /\ UNCHANGED nonCacheVars

\* getAllNews, cache miss: both sources are started, Promise.all awaited
GetAllNewsMiss(c) ==
  /\ ncalls[c].pc \in {"idle", "returned"}
  /\ ~NewsCacheFresh(clock)
  /\ Len(newsFetches) < MaxFetches
  /\ ncalls' = [ncalls EXCEPT ![c] =
       [pc |-> "fetching", now |-> clock, crypto |-> Null, web3 |-> Null,
        kind |-> "none", value |-> Null]]
  /\ newsFetches' = Append(newsFetches, Issued(c, clock))
  /\ UNCHANGED <<clock, ticks, tokenListCache, lastCacheUpdate, newsCache,
                 tcalls, tokenFetches, lastGoodTokens>>
  /\ UNCHANGED nonCacheVars

\* fetchCryptoNews resolves (with [] when its request failed)
CryptoNewsSettles(c, r) ==
  /\ ncalls[c].pc = "fetching"
  /\ ncalls[c].crypto = Null
  /\ ncalls' = [ncalls EXCEPT ![c].crypto = Some(r)]
  /\ UNCHANGED <<clock, ticks, tokenListCache, lastCacheUpdate, newsCache,
                 tcalls, tokenFetches, newsFetches, lastGoodTokens>>
  /\ UNCHANGED nonCacheVars

\* fetchWeb3News resolves (with [] when its request failed)
Web3NewsSettles(c, r) ==
  /\ ncalls[c].pc = "fetching"
  /\ ncalls[c].web3 = Null
  /\ ncalls' = [ncalls EXCEPT ![c].web3 = Some(r)]
  /\ UNCHANGED <<clock, ticks, tokenListCache, lastCacheUpdate, newsCache,
                 tcalls, tokenFetches, newsFetches, lastGoodTokens>>
  /\ UNCHANGED nonCacheVars

\* a join that rethrows when a source has failed
GetAllNewsJoinRejecting(c) ==
  /\ ncalls[c].pc = "fetching"
  /\ ncalls[c].crypto # Null
  /\ ncalls[c].web3 # Null
  /\ IF ncalls[c].crypto[1].ok /\ ncalls[c].web3[1].ok
       THEN LET response == NewsResponseOf(ncalls[c].crypto[1].articles,
                                           ncalls[c].web3[1].articles, clock)
            IN /\ newsCache' = Some([data |-> response, timestamp |-> ncalls[c].now])
               /\ ncalls' = [ncalls EXCEPT ![c].pc = "returned", ![c].kind = "fetched",
                                           ![c].value = Some(response)]
       ELSE /\ UNCHANGED newsCache
            /\ ncalls' = [ncalls EXCEPT ![c].pc = "thrown", ![c].kind = "error"]
  /\ newsFetches' = Settled(newsFetches, c, "ok")
  /\ UNCHANGED <<clock, ticks, tokenListCache, lastCacheUpdate, tcalls,
                 tokenFetches, lastGoodTokens>>
  /\ UNCHANGED nonCacheVars

\* Promise.all has resolved: merge, de-duplicate, store and return
GetAllNewsJoin(c) ==
  /\ ncalls[c].pc = "fetching"
  /\ ncalls[c].crypto # Null
  /\ ncalls[c].web3 # Null
  /\ LET response == NewsResponseOf(ncalls[c].crypto[1].articles,
                                    ncalls[c].web3[1].articles, clock)
     IN /\ newsCache' = Some([data |-> response, timestamp |-> ncalls[c].now])
        /\ ncalls' = [ncalls EXCEPT ![c].pc = "returned", ![c].kind = "fetched",
                                    ![c].value = Some(response)]
  /\ newsFetches' = Settled(newsFetches, c, "ok")
  /\ UNCHANGED <<clock, ticks, tokenListCache, lastCacheUpdate, tcalls,
                 tokenFetches, lastGoodTokens>>
  /\ UNCHANGED nonCacheVars

NextCache ==
  \/ \E d \in ClockSteps : Tick(d)
  \/ \E c \in CallIds : GetTokenListHit(c)
  \/ \E c \in CallIds : GetTokenListMiss(c)
  \/ \E c \in CallIds, r \in CoinsListReplies : TokenFetchSettles(c, r)
  \/ \E c \in CallIds : GetAllNewsHit(c)
  \/ \E c \in CallIds : GetAllNewsMiss(c)
  \/ \E c \in CallIds, r \in CryptoNewsResults : CryptoNewsSettles(c, r)
  \/ \E c \in CallIds, r \in Web3NewsResults : Web3NewsSettles(c, r)
  \/ \E c \in CallIds : GetAllNewsJoin(c)

-----------------------------------------------------------------------------
(* The merge of getAllNews: sort, de-duplication, trending topics          *)

ArticleDefiNft ==
  [title |-> <<"D", "e", "F", "i", " ", "D", "e", "F", "i">>,
   summary |-> <<"D", "e", "F", "i", " ", "N", "F", "T">>,
   url |-> "u4", publishedAt |-> 4000]
ArticleDefiUpper ==
  [title |-> <<"D", "E", "F", "I">>,
   summary |-> <<"N", "F", "T", " ", "m", "a", "r", "k", "e", "t", " ", "b", "o", "o", "m">>,
   url |-> "u1", publishedAt |-> 1000]

\* the articles each source can deliver
CryptoPool == {ArticleDefi, ArticleSolana, ArticleDefiNft}
Web3Pool == {ArticleToken, ArticleDefiLower, ArticleDefiUpper}
\* most articles of one source
MaxArticles == 2

ArticleLists(pool) == UNION {[1..n -> pool] : n \in 0..MaxArticles}

IdleNews ==
  /\ npc = "idle"
  /\ cryptoNews = <<>>
  /\ web3News = <<>>
  /\ newsResponse = Null

\* Promise.all has resolved with the articles of the two sources ([] for a
\* source that failed)
InitNews ==
  /\ npc = "fetched"
  /\ cryptoNews \in ArticleLists(CryptoPool)
  /\ web3News \in ArticleLists(Web3Pool)
  /\ newsResponse = Null

\* the rest of the try block: sort, de-duplicate, analyse, build response
MergeNews ==
  /\ npc = "fetched"
  /\ newsResponse' = Some(NewsResponseOf(cryptoNews, web3News, 0))
  /\ npc' = "merged"
  /\ UNCHANGED <<cryptoNews, web3News>>
  /\ UNCHANGED nonNewsVars

NextNews == MergeNews

-----------------------------------------------------------------------------
(* Addresses and getRecentTransactions                                     *)

\* new PublicKey(address) accepts a string that is base58 and decodes to
\* 32 bytes; an address is kept as those two properties of its text
PublicKeyLength == 32
Addresses ==
  {[base58 |-> TRUE, bytes |-> PublicKeyLength],
   [base58 |-> TRUE, bytes |-> PublicKeyLength - 1],
   [base58 |-> FALSE, bytes |-> 0]}

isValidSolanaAddress(address) ==
  address.base58 /\ address.bytes = PublicKeyLength

\* most signatures the history query returns in the model
MaxSignatures == 2
\* what getSignaturesForAddress resolves to: distinct signatures with
\* their block times
SignatureInfos == {[signature |-> "sigA", blockTime |-> 300],
                   [signature |-> "sigB", blockTime |-> 200],
                   [signature |-> "sigC", blockTime |-> 100]}
SignatureReplies ==
  {sigs \in UNION {[1..n -> SignatureInfos] : n \in 0..MaxSignatures} :
     \A i, j \in 1..Len(sigs) : i # j => sigs[i] # sigs[j]}

\* what getTransaction resolves to: null, or a transaction with its log
\* messages (Null when meta has none), error flag and first balances
NoTransaction == [found |-> FALSE]
TxReplies ==
  {NoTransaction,
   [found |-> TRUE, logs |-> Some(<<"S", "w", "a", "p">>), err |-> FALSE,
    pre |-> 5, post |-> 3],
   [found |-> TRUE, logs |-> Some(<<"M", "i", "n", "t">>), err |-> TRUE,
    pre |-> 5, post |-> 0],
   [found |-> TRUE, logs |-> Some(<<"T", "r", "a", "n", "s", "f", "e", "r">>),
    err |-> FALSE, pre |-> 1, post |-> 4],
   [found |-> TRUE, logs |-> Null, err |-> FALSE, pre |-> 2, post |-> 2]}

\* the classification of a transaction by its log messages
txTypeOf(tx) ==
  IF tx.logs = Null THEN "Unknown"
  ELSE LET logs == toLowerCase(tx.logs[1]) IN
       IF includes(logs, <<"s", "w", "a", "p">>)
          \/ includes(logs, <<"l", "i", "q", "u", "i", "d", "i", "t", "y">>)
         THEN "DeFi"
       ELSE IF includes(logs, <<"n", "f", "t">>) \/ includes(logs, <<"m", "i", "n", "t">>)
         THEN "NFT"
       ELSE IF includes(logs, <<"t", "o", "k", "e", "n">>)
               \/ includes(logs, <<"t", "r", "a", "n", "s", "f", "e", "r">>)
         THEN "Token Transfer"
       ELSE "Unknown"

\* the record the map callback returns for one signature; amount is kept
\* in lamports
recordOf(sig, tx) ==
  IF ~tx.found
    THEN [signature |-> sig.signature, timestamp |-> sig.blockTime,
          type |-> "Unknown", amount |-> 0, status |-> "Failed"]
    ELSE [signature |-> sig.signature, timestamp |-> sig.blockTime,
          type |-> txTypeOf(tx),
          amount |-> IF tx.post # 0 THEN tx.post - tx.pre ELSE 0,
          status |-> IF tx.err THEN "Failed" ELSE "Success"]

PendingTx == [pc |-> "pending", failed |-> 0, reply |-> Null, record |-> Null]

IdleTx ==
  /\ xpc = "idle"
  /\ walletAddress = [base58 |-> FALSE, bytes |-> 0]
  /\ sigAttempts = 0
  /\ signatures = Null
  /\ txPromises = <<>>
  /\ transactions = Null

InitTx ==
  /\ xpc = "called"
  /\ walletAddress \in Addresses
  /\ sigAttempts = 0
  /\ signatures = Null
  /\ txPromises = <<>>
  /\ transactions = Null

\* the address check; an invalid address throws into the catch, which
\* returns []; a valid one starts the signature-history query
ValidateWallet ==
  /\ xpc = "called"
  /\ IF isValidSolanaAddress(walletAddress)
       THEN xpc' = "signatures" /\ UNCHANGED transactions
       ELSE xpc' = "returned" /\ transactions' = Some(<<>>)
  /\ UNCHANGED <<walletAddress, sigAttempts, signatures, txPromises>>
  /\ UNCHANGED nonTxVars

\* an attempt of the signature-history query fails; after the last one
\* withRetry throws and the catch returns []
SignaturesFail ==
  /\ xpc = "signatures"
  /\ sigAttempts' = sigAttempts + 1
  /\ IF sigAttempts + 1 = DefaultMaxRetries
       THEN xpc' = "returned" /\ transactions' = Some(<<>>)
       ELSE UNCHANGED <<xpc, transactions>>
  /\ UNCHANGED <<walletAddress, signatures, txPromises>>
  /\ UNCHANGED nonTxVars

\* the query resolves and signatures.map starts one fetch per signature
SignaturesResolve(sigs) ==
  /\ xpc = "signatures"
  /\ signatures' = Some(sigs)
  /\ txPromises' = [i \in 1..Len(sigs) |-> PendingTx]
  /\ xpc' = "transactions"
  /\ UNCHANGED <<walletAddress, sigAttempts, transactions>>
  /\ UNCHANGED nonTxVars

\* an attempt of getTransaction for signature i fails; after the last one
\* withRetry throws and the promise of the map callback rejects
TxAttemptFails(i) ==
  /\ xpc = "transactions"
  /\ i \in 1..Len(txPromises)
  /\ txPromises[i].pc = "pending"
  /\ txPromises' =
       [txPromises EXCEPT ![i] =
          IF @.failed + 1 = DefaultMaxRetries
            THEN [pc |-> "rejected", failed |-> @.failed + 1,
                  reply |-> Null, record |-> Null]
            ELSE [@ EXCEPT !.failed = @ + 1]]
  /\ UNCHANGED <<xpc, walletAddress, sigAttempts, signatures, transactions>>
  /\ UNCHANGED nonTxVars

\* getTransaction for signature i resolves and the callback returns
TxResolves(i, tx) ==
  /\ xpc = "transactions"
  /\ i \in 1..Len(txPromises)
  /\ txPromises[i].pc = "pending"
  /\ txPromises' =
       [txPromises EXCEPT ![i] =
          [pc |-> "resolved", failed |-> @.failed, reply |-> Some(tx),
           record |-> Some(recordOf(signatures[1][i], tx))]]
  /\ UNCHANGED <<xpc, walletAddress, sigAttempts, signatures, transactions>>
  /\ UNCHANGED nonTxVars

\* Promise.all rejects with the first rejection: the catch returns []
TransactionsRejected ==
  /\ xpc = "transactions"
  /\ \E i \in 1..Len(txPromises) : txPromises[i].pc = "rejected"
  /\ transactions' = Some(<<>>)
  /\ xpc' = "returned"
  /\ UNCHANGED <<walletAddress, sigAttempts, signatures, txPromises>>
  /\ UNCHANGED nonTxVars

\* Promise.all resolves once every promise has: the records are returned
TransactionsResolved ==
  /\ xpc = "transactions"
  /\ \A i \in 1..Len(txPromises) : txPromises[i].pc = "resolved"
  /\ transactions' = Some([i \in 1..Len(txPromises) |-> txPromises[i].record[1]])
  /\ xpc' = "returned"
  /\ UNCHANGED <<walletAddress, sigAttempts, signatures, txPromises>>
  /\ UNCHANGED nonTxVars

NextTx ==
  \/ ValidateWallet
  \/ SignaturesFail
  \/ \E sigs \in SignatureReplies : SignaturesResolve(sigs)
  \/ \E i \in 1..MaxSignatures : TxAttemptFails(i)
  \/ \E i \in 1..MaxSignatures : \E tx \in TxReplies : TxResolves(i, tx)
  \/ TransactionsRejected
  \/ TransactionsResolved

-----------------------------------------------------------------------------
(* analyzeHolderConcentration                                              *)

\* the score every sub-scorer starts from
FullScore == 100
\* thresholds of the top holder's share and their penalties
ExtremeTopShare == 50
HighTopShare == 30
ExtremeTopPenalty == 30
HighTopPenalty == 20
\* thresholds of the cumulative share of the first holders and their
\* penalties
TopSlice == 10
ExtremeSliceShare == 90
HighSliceShare == 70
ExtremeSlicePenalty == 25
HighSlicePenalty == 15

\* percentages are kept in hundredths of a percent (50.01% is 5001)
Percent(n) == 100 * n

\* the shares a holder has in the model
PctValues == {0, 900, 1000, 2000, 3000, 3001, 5000, 5001}
\* longest holder list in the model
MaxHolders == 11

Sum(seq) ==
  LET F[i \in 0..Len(seq)] == IF i = 0 THEN 0 ELSE F[i - 1] + seq[i]
  IN F[Len(seq)]

\* the holder lists of a given length: largest account first, as
\* getTokenLargestAccounts replies, the shares adding up to at most 100%
RECURSIVE HolderListsOfLen(_)
HolderListsOfLen(n) ==
  IF n = 0 THEN {<<>>}
  ELSE UNION {{Append(h, p) : p \in {q \in PctValues :
                                       /\ Sum(h) + q <= Percent(100)
                                       /\ (n > 1 => q <= h[n - 1])}} :
              h \in HolderListsOfLen(n - 1)}

HolderLists == UNION {HolderListsOfLen(n) : n \in 0..MaxHolders}

\* Math.max(0, score)
ClampScore(score) == IF score > 0 THEN score ELSE 0

\* holders.slice(0, 10)
slice(seq, n) == SubSeq(seq, 1, IF Len(seq) < n THEN Len(seq) ELSE n)

\* the analysis with inclusive thresholds (>= in place of >)
analyzeHolderConcentrationInclusive(list) ==
  IF Len(list) = 0
    THEN [score |-> 0, factors |-> <<[kind |-> "No holder data available", pct |-> 0]>>]
  ELSE
    LET topHolder == list[1]
        top10Percentage == Sum(slice(list, TopSlice))
        topPenalty ==
          IF topHolder >= Percent(ExtremeTopShare) THEN ExtremeTopPenalty
          ELSE IF topHolder >= Percent(HighTopShare) THEN HighTopPenalty
          ELSE 0
        topFactor ==
          IF topHolder >= Percent(ExtremeTopShare)
            THEN <<[kind |-> "Extreme concentration", pct |-> topHolder]>>
          ELSE IF topHolder >= Percent(HighTopShare)
            THEN <<[kind |-> "High concentration", pct |-> topHolder]>>
          ELSE <<>>
        slicePenalty ==
          IF top10Percentage >= Percent(ExtremeSliceShare) THEN ExtremeSlicePenalty
          ELSE IF top10Percentage >= Percent(HighSliceShare) THEN HighSlicePenalty
          ELSE 0
        sliceFactor ==
          IF top10Percentage >= Percent(ExtremeSliceShare)
            THEN <<[kind |-> "Extreme top 10 concentration", pct |-> top10Percentage]>>
          ELSE IF top10Percentage >= Percent(HighSliceShare)
            THEN <<[kind |-> "High top 10 concentration", pct |-> top10Percentage]>>
          ELSE <<>>
    IN [score |-> ClampScore(FullScore - topPenalty - slicePenalty),
        factors |-> topFactor \o sliceFactor]

\* analyzeHolderConcentration(holders): a factor is its message and the
\* percentage printed in it
analyzeHolderConcentration(list) ==
  IF Len(list) = 0
    THEN [score |-> 0, factors |-> <<[kind |-> "No holder data available", pct |-> 0]>>]
  ELSE
    LET topHolder == list[1]
        top10Percentage == Sum(slice(list, TopSlice))
        topPenalty ==
          IF topHolder > Percent(ExtremeTopShare) THEN ExtremeTopPenalty
          ELSE IF topHolder > Percent(HighTopShare) THEN HighTopPenalty
          ELSE 0
        topFactor ==
          IF topHolder > Percent(ExtremeTopShare)
            THEN <<[kind |-> "Extreme concentration", pct |-> topHolder]>>
          ELSE IF topHolder > Percent(HighTopShare)
            THEN <<[kind |-> "High concentration", pct |-> topHolder]>>
          ELSE <<>>
        slicePenalty ==
          IF top10Percentage > Percent(ExtremeSliceShare) THEN ExtremeSlicePenalty
          ELSE IF top10Percentage > Percent(HighSliceShare) THEN HighSlicePenalty
          ELSE 0
        sliceFactor ==
          IF top10Percentage > Percent(ExtremeSliceShare)
            THEN <<[kind |-> "Extreme top 10 concentration", pct |-> top10Percentage]>>
          ELSE IF top10Percentage > Percent(HighSliceShare)
            THEN <<[kind |-> "High top 10 concentration", pct |-> top10Percentage]>>
          ELSE <<>>
    IN [score |-> ClampScore(FullScore - topPenalty - slicePenalty),
        factors |-> topFactor \o sliceFactor]

IdleHolders ==
  /\ hpc = "idle"
  /\ holders = <<>>
  /\ holderAnalysis = [score |-> 0, factors |-> <<>>]

\* analyzeHolderConcentration is called with a holder list
InitHolders ==
  /\ hpc = "called"
  /\ holders \in HolderLists
  /\ holderAnalysis = [score |-> 0, factors |-> <<>>]

AnalyzeHolders ==
  /\ hpc = "called"
  /\ holderAnalysis' = analyzeHolderConcentration(holders)
  /\ hpc' = "returned"
  /\ UNCHANGED holders
  /\ UNCHANGED nonHolderVars

NextHolders == AnalyzeHolders

-----------------------------------------------------------------------------
(* The weighted aggregation and the risk tier of tokenRiskAnalysisTool      *)

\* Numbers are IEEE 754 doubles.  A non-negative double below 128 with at
\* least 2^-54 as unit in the last place is kept as the integer
\* value * 2^54, in three limbs of 24 bits, least significant first.
Limb == 16777216
\* the doubles nearest to 0.4 and to 0.3
HolderWeight == <<10066330, 10066329, 25>>
OtherWeight == <<3355443, 3355443, 19>>
\* 0.5 and 1.0 in units of the most significant limb
HalfTop == 32
OneTop == 64

\* carries propagated
Normalize(x) ==
  LET l1 == x[2] + (x[1] \div Limb)
  IN <<x[1] % Limb, l1 % Limb, x[3] + (l1 \div Limb)>>

\* the spacing of the doubles around x, in units of 2^-54
UlpOf(x) ==
  IF x[3] < HalfTop THEN 1
  ELSE 2 ^ (CHOOSE k \in 1..9 :
              (HalfTop \div 2) * (2 ^ k) <= x[3] /\ x[3] < HalfTop * (2 ^ k))

\* round to nearest, ties to even
RoundToDouble(x) ==
  LET g == UlpOf(x)
      r == x[1] % g
      q == x[1] \div g
      up == 2 * r > g \/ (2 * r = g /\ q % 2 = 1)
  IN Normalize(<<x[1] - r + (IF up THEN g ELSE 0), x[2], x[3]>>)

\* score * weight, for an integer score
DoubleTimes(score, w) ==
  RoundToDouble(Normalize(<<w[1] * score, w[2] * score, w[3] * score>>))

\* a + b
DoublePlus(a, b) ==
  RoundToDouble(Normalize(<<a[1] + b[1], a[2] + b[2], a[3] + b[3]>>))

\* Math.round: floor(x + 0.5)
MathRound(x) == (x[3] + HalfTop) \div OneTop

\* the weighted average with the weights of holder and transaction score
\* exchanged
overallOfSwapped(h, t, l) ==
  MathRound(DoublePlus(DoublePlus(DoubleTimes(h, OtherWeight),
                                  DoubleTimes(t, HolderWeight)),
                       DoubleTimes(l, OtherWeight)))

\* Math.round(h * 0.4 + t * 0.3 + l * 0.3)
overallOf(h, t, l) ==
  MathRound(DoublePlus(DoublePlus(DoubleTimes(h, HolderWeight),
                                  DoubleTimes(t, OtherWeight)),
                       DoubleTimes(l, OtherWeight)))

\* thresholds of the risk tiers
ExtremeRisk == 80
HighRisk == 60
MediumRisk == 40

\* the tiers with exclusive thresholds (> in place of >=)
riskLevelOfExclusive(score) ==
  IF score > ExtremeRisk THEN "EXTREMELY HIGH"
  ELSE IF score > HighRisk THEN "HIGH"
  ELSE IF score > MediumRisk THEN "MEDIUM"
  ELSE "LOW"

\* let riskLevel = "LOW"; if ... else if ... else if ...
riskLevelOf(score) ==
  IF score >= ExtremeRisk THEN "EXTREMELY HIGH"
  ELSE IF score >= HighRisk THEN "HIGH"
  ELSE IF score >= MediumRisk THEN "MEDIUM"
  ELSE "LOW"

\* the scores a sub-scorer can return: FullScore less penalties, which are
\* all multiples of 5, clamped at 0
SubScores == {s \in 0..FullScore : s % 5 = 0}

IdleRisk ==
  /\ apc = "idle"
  /\ holderScore = 0
  /\ transactionScore = 0
  /\ liquidityScore = 0
  /\ overallRiskScore = 0
  /\ riskLevel = ""

\* the three analyses of tokenRiskAnalysisTool.execute have returned
InitRisk ==
  /\ apc = "analysed"
  /\ holderScore \in SubScores
  /\ transactionScore \in SubScores
  /\ liquidityScore \in SubScores
  /\ overallRiskScore = 0
  /\ riskLevel = ""

\* overallRiskScore and riskLevel are computed
AssessRisk ==
  /\ apc = "analysed"
  /\ overallRiskScore' = overallOf(holderScore, transactionScore, liquidityScore)
  /\ riskLevel' = riskLevelOf(overallOf(holderScore, transactionScore, liquidityScore))
  /\ apc' = "assessed"
  /\ UNCHANGED <<holderScore, transactionScore, liquidityScore>>
  /\ UNCHANGED nonRiskVars

NextRisk == AssessRisk

-----------------------------------------------------------------------------
(* The balance and supply lookups, and the tools that take an address      *)

Lookups == {"getSolBalance", "getTokenBalance", "getOnChainTokenData"}
Tools == {"addressAnalysisTool", "tokenRiskAnalysisTool"}
BalanceOps == {"getSolBalance", "getTokenBalance", "addressAnalysisTool"}

\* a factor of a sub-scorer whose text holds no percentage
Factor(text) == [kind |-> text, pct |-> 0]

\* what connection.getBalance resolves to, in lamports; balances are kept
\* in lamports (the code divides by LAMPORTS_PER_SOL)
BalanceReplies == {0, 5}

\* what connection.getParsedAccountInfo resolves to: no account, an account
\* without parsed data, parsed data without info, or the mint info
MintInfo(mint, freeze) ==
  [value |-> TRUE, parsed |-> TRUE, info |-> TRUE,
   supply |-> 1000, decimals |-> 6, mintAuthority |-> mint, freezeAuthority |-> freeze]
AccountInfoReplies ==
  {[value |-> FALSE, parsed |-> FALSE, info |-> FALSE],
   [value |-> TRUE, parsed |-> FALSE, info |-> FALSE],
   [value |-> TRUE, parsed |-> TRUE, info |-> FALSE],
   MintInfo(FALSE, FALSE),
   MintInfo(TRUE, TRUE)}

\* getOnChainTokenData once getParsedAccountInfo has resolved
tokenDataOf(reply) ==
  IF ~reply.value THEN [kind |-> "thrown", value |-> "Token account not found"]
  ELSE IF ~reply.parsed \/ ~reply.info
    THEN [kind |-> "thrown", value |-> "Invalid token data format"]
  ELSE [kind |-> "returned",
        value |-> [supply |-> reply.supply, decimals |-> reply.decimals,
                   mintAuthority |-> reply.mintAuthority,
                   freezeAuthority |-> reply.freezeAuthority]]

\* what getTokenLargestAccounts resolves to: no value (Null), or the
\* accounts, kept as the percentages computed from them, which add up to
\* 100% of the amounts returned
LargestAccountsReplies ==
  {Null, Some(<<>>), Some(<<10000>>), Some(<<5001, 4999>>),
   Some(<<2500, 2500, 2500, 2500>>)}

\* penalties that are added to the score instead of taken from it
transactionAnalysisOfAdded(failed, transfers, frequent) ==
  [score |-> 100 + (IF failed THEN 20 ELSE 0) + (IF transfers THEN 15 ELSE 0)
                 + (IF frequent THEN 10 ELSE 0),
   factors |->
     (IF failed THEN <<Factor("High rate of failed transactions")>> ELSE <<>>)
     \o (IF transfers
           THEN <<Factor("Suspicious transaction pattern: High concentration of transfers")>>
           ELSE <<>>)
     \o (IF frequent THEN <<Factor("Unusual transaction frequency")>> ELSE <<>>)]

\* the results of analyzeTransactionPatterns: the three penalties of lines
\* 793-809 apply or not (getRecentTransactions never throws)
transactionAnalysisOf(failed, transfers, frequent) ==
  [score |-> 100 - (IF failed THEN 20 ELSE 0) - (IF transfers THEN 15 ELSE 0)
                 - (IF frequent THEN 10 ELSE 0),
   factors |->
     (IF failed THEN <<Factor("High rate of failed transactions")>> ELSE <<>>)
     \o (IF transfers
           THEN <<Factor("Suspicious transaction pattern: High concentration of transfers")>>
           ELSE <<>>)
     \o (IF frequent THEN <<Factor("Unusual transaction frequency")>> ELSE <<>>)]
TransactionAnalyses ==
  {transactionAnalysisOf(f, t, u) : f \in BOOLEAN, t \in BOOLEAN, u \in BOOLEAN}

\* results of analyzeLiquidity: the second getOnChainTokenData failed; no
\* transactions and no authority; no transactions and both authorities;
\* an active token without authorities
LiquidityAnalyses ==
  {[score |-> 0, factors |-> <<Factor("Error analyzing on-chain data")>>],
   [score |-> 70,
    factors |-> <<Factor("Very low average transaction volume"),
                  Factor("Limited program interaction diversity")>>],
   [score |-> 30,
    factors |-> <<Factor("Very low average transaction volume"),
                  Factor("Active mint authority - token supply can be increased"),
                  Factor("Active freeze authority - accounts can be frozen"),
                  Factor("Limited program interaction diversity")>>],
   [score |-> 100, factors |-> <<>>]}

\* the transactions getRecentTransactions hands to the wallet summary
ActivityReplies == {0, 1, 2}

NoLocals ==
  [balance |-> Null, holders |-> Null, holderAnalysis |-> Null,
   transactionAnalysis |-> Null, liquidityAnalysis |-> Null]

\* an RPC call is issued; the call issued last settles
Issue(log, call) == Append(log, [call |-> call, status |-> "pending", reply |-> Null])
Settle(log, status, reply) ==
  [log EXCEPT ![Len(log)] = [@ EXCEPT !.status = status, !.reply = reply]]

Returned(v) == Some([kind |-> "returned", value |-> v])
ThrownError(msg) == Some([kind |-> "thrown", value |-> msg])

IdleOp ==
  /\ opc = "idle"
  /\ op = "none"
  /\ opAddress = [base58 |-> FALSE, bytes |-> 0]
  /\ rpcLog = <<>>
  /\ rpcAttempts = 0
  /\ locals = NoLocals
  /\ opResult = Null

InitOp ==
  /\ opc = "called"
  /\ op \in Lookups \cup Tools
  /\ opAddress \in Addresses
  /\ rpcLog = <<>>
  /\ rpcAttempts = 0
  /\ locals = NoLocals
  /\ opResult = Null

\* the operation without its address check: the first RPC is issued for
\* any address
StartOperationUnchecked ==
  /\ opc = "called"
  /\ IF op \in BalanceOps
       THEN /\ opc' = "balance"
            /\ rpcLog' = Issue(rpcLog, "getBalance")
            /\ UNCHANGED opResult
       ELSE /\ opc' = "tokenData"
            /\ rpcLog' = Issue(rpcLog, "getParsedAccountInfo")
            /\ UNCHANGED opResult
  /\ UNCHANGED <<op, opAddress, rpcAttempts, locals>>
  /\ UNCHANGED nonOpVars

\* the synchronous start of the operation: the address check, then the
\* first RPC.  On an invalid address the balance lookups return 0 from
\* their catch, getOnChainTokenData rethrows, and the tools throw the
\* wrapped error (tokenRiskAnalysisTool through getOnChainTokenData)
StartOperation ==
  /\ opc = "called"
  /\ IF ~isValidSolanaAddress(opAddress)
       THEN /\ UNCHANGED rpcLog
            /\ IF op \in {"getSolBalance", "getTokenBalance"}
                 THEN opc' = "returned" /\ opResult' = Returned(0)
                 ELSE /\ opc' = "thrown"
                      /\ opResult' = ThrownError(
                           CASE op = "getOnChainTokenData" -> "Invalid token address format"
                             [] op = "addressAnalysisTool" ->
                                  "Error analyzing wallet address: Invalid Solana wallet address format"
                             [] op = "tokenRiskAnalysisTool" ->
                                  "Error analyzing token risk: Unable to fetch token data")
       ELSE IF op \in BalanceOps
         THEN /\ opc' = "balance"
              /\ rpcLog' = Issue(rpcLog, "getBalance")
              /\ UNCHANGED opResult
         ELSE /\ opc' = "tokenData"
              /\ rpcLog' = Issue(rpcLog, "getParsedAccountInfo")
              /\ UNCHANGED opResult
  /\ UNCHANGED <<op, opAddress, rpcAttempts, locals>>
  /\ UNCHANGED nonOpVars

\* the balance lookup lets an RPC error out of its catch
BalanceSettlesThrowing(ok, lamports) ==
  /\ opc = "balance"
  /\ IF op = "addressAnalysisTool"
       THEN /\ opc' = "activity"
            /\ rpcLog' = Issue(Settle(rpcLog, IF ok THEN "resolved" ELSE "rejected",
                                      IF ok THEN Some(lamports) ELSE Null),
                               "getSignaturesForAddress")
            /\ locals' = [locals EXCEPT !.balance = Some(IF ok THEN lamports ELSE 0)]
            /\ UNCHANGED opResult
       ELSE /\ opc' = IF ok THEN "returned" ELSE "thrown"
            /\ opResult' = IF ok THEN Returned(lamports) ELSE ThrownError("RPC error")
            /\ rpcLog' = Settle(rpcLog, IF ok THEN "resolved" ELSE "rejected",
                                IF ok THEN Some(lamports) ELSE Null)
            /\ UNCHANGED locals
  /\ UNCHANGED <<op, opAddress, rpcAttempts>>
  /\ UNCHANGED nonOpVars

\* connection.getBalance settles (it is not retried): the balance, or 0
\* from the catch.  In addressAnalysisTool the balance is kept and
\* getRecentTransactions starts
BalanceSettles(ok, lamports) ==
  /\ opc = "balance"
  /\ IF op = "addressAnalysisTool"
       THEN /\ opc' = "activity"
            /\ rpcLog' = Issue(Settle(rpcLog, IF ok THEN "resolved" ELSE "rejected",
                                      IF ok THEN Some(lamports) ELSE Null),
                               "getSignaturesForAddress")
            /\ locals' = [locals EXCEPT !.balance = Some(IF ok THEN lamports ELSE 0)]
            /\ UNCHANGED opResult
       ELSE /\ opc' = "returned"
            /\ opResult' = Returned(IF ok THEN lamports ELSE 0)
            /\ rpcLog' = Settle(rpcLog, IF ok THEN "resolved" ELSE "rejected",
                                IF ok THEN Some(lamports) ELSE Null)
            /\ UNCHANGED locals
  /\ UNCHANGED <<op, opAddress, rpcAttempts>>
  /\ UNCHANGED nonOpVars

\* getRecentTransactions has returned and addressAnalysisTool returns its
\* summary (kept as the balance and the number of transactions fetched)
ActivityFetched(n) ==
  /\ opc = "activity"
  /\ opc' = "returned"
  /\ opResult' = Returned([totalBalance |-> locals.balance[1], fetched |-> n])
  /\ rpcLog' = Settle(rpcLog, "settled", Null)
  /\ UNCHANGED <<op, opAddress, rpcAttempts, locals>>
  /\ UNCHANGED nonOpVars

\* an attempt of getParsedAccountInfo fails: withRetry tries again, and
\* after the last attempt getOnChainTokenData rethrows
TokenDataAttemptFails ==
  /\ opc = "tokenData"
  /\ IF rpcAttempts + 1 < DefaultMaxRetries
       THEN /\ rpcAttempts' = rpcAttempts + 1
            /\ rpcLog' = Issue(Settle(rpcLog, "rejected", Null), "getParsedAccountInfo")
            /\ UNCHANGED <<opc, opResult>>
       ELSE /\ rpcAttempts' = 0
            /\ rpcLog' = Settle(rpcLog, "rejected", Null)
            /\ opc' = "thrown"
            /\ opResult' = ThrownError(
                 IF op = "getOnChainTokenData" THEN "RPC error"
                 ELSE "Error analyzing token risk: Unable to fetch token data")
  /\ UNCHANGED <<op, opAddress, locals>>
  /\ UNCHANGED nonOpVars

\* getParsedAccountInfo resolves: getOnChainTokenData returns the mint
\* info or throws; tokenRiskAnalysisTool goes on to the holders
TokenDataResolves(reply) ==
  /\ opc = "tokenData"
  /\ rpcAttempts' = 0
  /\ IF op = "getOnChainTokenData"
       THEN /\ opc' = tokenDataOf(reply).kind
            /\ opResult' = Some(tokenDataOf(reply))
            /\ rpcLog' = Settle(rpcLog, "resolved", Some(reply))
       ELSE IF tokenDataOf(reply).kind = "thrown"
         THEN /\ opc' = "thrown"
              /\ opResult' = ThrownError("Error analyzing token risk: Unable to fetch token data")
              /\ rpcLog' = Settle(rpcLog, "resolved", Some(reply))
         ELSE /\ opc' = "holders"
              /\ rpcLog' = Issue(Settle(rpcLog, "resolved", Some(reply)),
                                 "getTokenLargestAccounts")
              /\ UNCHANGED opResult
  /\ UNCHANGED <<op, opAddress, locals>>
  /\ UNCHANGED nonOpVars

\* execute once getTokenHoldersDistribution has returned list: the holder
\* analysis, then analyzeTransactionPatterns starts
HoldersReturned(list, status) ==
  /\ locals' = [locals EXCEPT !.holders = Some(list),
                              !.holderAnalysis = Some(analyzeHolderConcentration(list))]
  /\ rpcLog' = Issue(Settle(rpcLog, status, Null), "getSignaturesForAddress")
  /\ rpcAttempts' = 0
  /\ opc' = "transactions"

\* an attempt of getTokenLargestAccounts fails; after the last attempt
\* getTokenHoldersDistribution returns [] from its catch
HoldersAttemptFails ==
  /\ opc = "holders"
  /\ IF rpcAttempts + 1 < DefaultMaxRetries
       THEN /\ rpcAttempts' = rpcAttempts + 1
            /\ rpcLog' = Issue(Settle(rpcLog, "rejected", Null), "getTokenLargestAccounts")
            /\ UNCHANGED <<opc, locals>>
       ELSE HoldersReturned(<<>>, "rejected")
  /\ UNCHANGED <<op, opAddress, opResult>>
  /\ UNCHANGED nonOpVars

\* getTokenLargestAccounts resolves: the holders, or [] when it has no
\* value
HoldersResolve(reply) ==
  /\ opc = "holders"
  /\ HoldersReturned(IF reply = Null THEN <<>> ELSE reply[1], "resolved")
  /\ UNCHANGED <<op, opAddress, opResult>>
  /\ UNCHANGED nonOpVars

\* analyzeTransactionPatterns returns and analyzeLiquidity starts
TransactionsAnalysed(analysis) ==
  /\ opc = "transactions"
  /\ locals' = [locals EXCEPT !.transactionAnalysis = Some(analysis)]
  /\ rpcLog' = Issue(Settle(rpcLog, "settled", Null), "getParsedAccountInfo")
  /\ opc' = "liquidity"
  /\ UNCHANGED <<op, opAddress, rpcAttempts, opResult>>
  /\ UNCHANGED nonOpVars

\* the report with the holder-distribution warning put first
reportOfWarningFirst(holderList, holderAn, transactionAn, liquidityAn) ==
  LET overall == overallOf(holderAn.score, transactionAn.score, liquidityAn.score)
      warnings ==
        (IF Len(holderList) = 0
           THEN <<Factor("Warning: Could not fetch holder distribution data")>>
           ELSE <<>>)
        \o (IF transactionAn.score = 0
              THEN <<Factor("Warning: Could not fetch transaction data")>>
              ELSE <<>>)
  IN [riskScore |-> overall,
      riskLevel |-> riskLevelOf(overall),
      liquidityScore |-> liquidityAn.score,
      holderConcentrationScore |-> holderAn.score,
      transactionPatternScore |-> transactionAn.score,
      contractRiskScore |-> 100,
      riskFactors |-> warnings \o holderAn.factors \o transactionAn.factors
                        \o liquidityAn.factors]

\* the report tokenRiskAnalysisTool.execute builds from the three analyses
reportOf(holderList, holderAn, transactionAn, liquidityAn) ==
  LET overall == overallOf(holderAn.score, transactionAn.score, liquidityAn.score)
      warnings ==
        (IF Len(holderList) = 0
           THEN <<Factor("Warning: Could not fetch holder distribution data")>>
           ELSE <<>>)
        \o (IF transactionAn.score = 0
              THEN <<Factor("Warning: Could not fetch transaction data")>>
              ELSE <<>>)
  IN [riskScore |-> overall,
      riskLevel |-> riskLevelOf(overall),
      liquidityScore |-> liquidityAn.score,
      holderConcentrationScore |-> holderAn.score,
      transactionPatternScore |-> transactionAn.score,
      contractRiskScore |-> 100,
      riskFactors |-> holderAn.factors \o transactionAn.factors
                        \o liquidityAn.factors \o warnings]

\* analyzeLiquidity returns and execute returns the report
LiquidityAnalysed(analysis) ==
  /\ opc = "liquidity"
  /\ opResult' = Returned(reportOf(locals.holders[1], locals.holderAnalysis[1],
                                   locals.transactionAnalysis[1], analysis))
  /\ locals' = [locals EXCEPT !.liquidityAnalysis = Some(analysis)]
  /\ rpcLog' = Settle(rpcLog, "settled", Null)
  /\ opc' = "returned"
  /\ UNCHANGED <<op, opAddress, rpcAttempts>>
  /\ UNCHANGED nonOpVars

NextOp ==
  \/ StartOperation
  \/ \E ok \in BOOLEAN : \E lamports \in BalanceReplies : BalanceSettles(ok, lamports)
  \/ \E n \in ActivityReplies : ActivityFetched(n)
  \/ TokenDataAttemptFails
  \/ \E reply \in AccountInfoReplies : TokenDataResolves(reply)
  \/ HoldersAttemptFails
  \/ \E reply \in LargestAccountsReplies : HoldersResolve(reply)
  \/ \E analysis \in TransactionAnalyses : TransactionsAnalysed(analysis)
  \/ \E analysis \in LiquidityAnalyses : LiquidityAnalysed(analysis)

-----------------------------------------------------------------------------
(* The sub-scores of the token risk report, computed from what was fetched  *)

\* seconds in a day (helpers.ts:868)
SecondsPerDay == 86400
\* amounts are kept in hundredths of SOL
AmountUnitsPerSol == 100
\* longest transaction sample in the model
MaxSample == 2

\* records of getRecentTransactions: a swap three days ago, a transfer and
\* a transaction that was not found in the same block, a failed transfer
\* five seconds before them, and an old failed mint
RecSwap ==
  [timestamp |-> 3 * SecondsPerDay, type |-> "DeFi", amount |-> -200,
   status |-> "Success", programIds |-> {"p1", "p2", "p3"}]
RecTransfer ==
  [timestamp |-> SecondsPerDay, type |-> "Token Transfer", amount |-> 5,
   status |-> "Success", programIds |-> {"p1"}]
RecNotFound ==
  [timestamp |-> SecondsPerDay, type |-> "Unknown", amount |-> 0,
   status |-> "Failed", programIds |-> {}]
RecBurst ==
  [timestamp |-> SecondsPerDay - 5, type |-> "Token Transfer", amount |-> 50,
   status |-> "Failed", programIds |-> {"p1", "p2"}]
RecMint ==
  [timestamp |-> 0, type |-> "NFT", amount |-> 100,
   status |-> "Failed", programIds |-> {"p4"}]
TxRecords == {RecSwap, RecTransfer, RecNotFound, RecBurst, RecMint}

\* the samples: distinct transactions, newest first, as
\* getSignaturesForAddress lists them
TxSamples ==
  {s \in UNION {[1..n -> TxRecords] : n \in 0..MaxSample} :
     /\ \A i, j \in 1..Len(s) : i # j => s[i] # s[j]
     /\ \A i \in 1..Len(s) - 1 : s[i].timestamp >= s[i + 1].timestamp}

\* a transaction fetch: the RPC errors on all attempts, or resolves
TxFetches ==
  {[failed |-> TRUE, records |-> <<>>]}
  \cup {[failed |-> FALSE, records |-> s] : s \in TxSamples}

\* getRecentTransactions: the catch of lines 527-530 returns []
getRecentTransactionsOf(fetch) == IF fetch.failed THEN <<>> ELSE fetch.records

CountOf(seq, hits) == Cardinality({i \in 1..Len(seq) : seq[i] \in hits})

\* analyzeTransactionPatterns on what getRecentTransactions returned
analyzeTransactionPatterns(list) ==
  LET n == Len(list)
      failedTxs == CountOf(list, {tx \in TxRecords : tx.status = "Failed"})
      transfers == CountOf(list, {tx \in TxRecords : tx.type = "Token Transfer"})
      timeSpan == IF n > 1 THEN list[1].timestamp - list[n].timestamp ELSE 0
  IN transactionAnalysisOf(failedTxs * 5 > n,
                           transfers * 5 > n * 4,
                           timeSpan > 0 /\ n * 10 > timeSpan)

\* a / b in JavaScript, for integers a and b
Quotient(a, b) ==
  IF b = 0
    THEN IF a = 0 THEN [kind |-> "NaN", num |-> 0, den |-> 1]
         ELSE [kind |-> IF a > 0 THEN "Infinity" ELSE "-Infinity", num |-> 0, den |-> 1]
  ELSE IF b > 0 THEN [kind |-> "finite", num |-> a, den |-> b]
  ELSE [kind |-> "finite", num |-> 0 - a, den |-> 0 - b]

\* x || 0: NaN and 0 are falsy, Infinity is not
OrZero(x) ==
  IF x.kind = "NaN" \/ (x.kind = "finite" /\ x.num = 0)
    THEN [kind |-> "finite", num |-> 0, den |-> 1]
    ELSE x

\* x < k
LessThan(x, k) ==
  \/ x.kind = "-Infinity"
  \/ x.kind = "finite" /\ x.num < k * x.den

Abs(x) == IF x < 0 THEN 0 - x ELSE x

\* (transactions.length / (timeSpan / 86400)) || 0
txPerDayOf(n, timeSpan) == OrZero(Quotient(n * SecondsPerDay, timeSpan))

\* analyzeLiquidity on the outcome of getOnChainTokenData and on what
\* getRecentTransactions returned
analyzeLiquidity(token, list) ==
  IF token.kind = "thrown"
    THEN [score |-> 0, factors |-> <<Factor("Error analyzing on-chain data")>>]
  ELSE
    LET n == Len(list)
        totalVolume == Sum([i \in 1..n |-> Abs(list[i].amount)])
        divisor == IF n = 0 THEN 1 ELSE n
        volume ==
          IF totalVolume * 10 < AmountUnitsPerSol * divisor
            THEN [penalty |-> 20,
                  factors |-> <<Factor("Very low average transaction volume")>>]
          ELSE IF totalVolume < AmountUnitsPerSol * divisor
            THEN [penalty |-> 10,
                  factors |-> <<Factor("Low average transaction volume")>>]
          ELSE [penalty |-> 0, factors |-> <<>>]
        txPerDay ==
          IF n > 0 THEN txPerDayOf(n, list[1].timestamp - list[n].timestamp)
          ELSE Quotient(0, 0)
        frequency ==
          IF n > 0 /\ LessThan(txPerDay, 1)
            THEN [penalty |-> 15,
                  factors |->
                    <<Factor("Very low transaction frequency (less than 1 tx per day)")>>]
          ELSE IF n > 0 /\ LessThan(txPerDay, 10)
            THEN [penalty |-> 5, factors |-> <<Factor("Low transaction frequency")>>]
          ELSE [penalty |-> 0, factors |-> <<>>]
        mint ==
          IF token.value.mintAuthority
            THEN [penalty |-> 25,
                  factors |->
                    <<Factor("Active mint authority - token supply can be increased")>>]
            ELSE [penalty |-> 0, factors |-> <<>>]
        freeze ==
          IF token.value.freezeAuthority
            THEN [penalty |-> 15,
                  factors |->
                    <<Factor("Active freeze authority - accounts can be frozen")>>]
            ELSE [penalty |-> 0, factors |-> <<>>]
        uniqueAddresses == UNION {list[i].programIds : i \in 1..n}
        diversity ==
          IF Cardinality(uniqueAddresses) < 3
            THEN [penalty |-> 10,
                  factors |-> <<Factor("Limited program interaction diversity")>>]
            ELSE [penalty |-> 0, factors |-> <<>>]
    IN [score |-> ClampScore(FullScore - volume.penalty - frequency.penalty
                             - mint.penalty - freeze.penalty - diversity.penalty),
        factors |-> volume.factors \o frequency.factors \o mint.factors
                      \o freeze.factors \o diversity.factors]

\* what getOnChainTokenData settles to inside analyzeLiquidity
TokenOutcomes == {tokenDataOf(reply) : reply \in AccountInfoReplies}

\* the holder lists getTokenHoldersDistribution returns in the model
ReportHolderLists ==
  {<<>>, <<Percent(100)>>, <<5001, 4999>>, <<2500, 2500, 2500, 2500>>}

NoAnalyses == [holder |-> Null, transaction |-> Null, liquidity |-> Null]

IdleScoring ==
  /\ gpc = "idle"
  /\ tokenHolders = <<>>
  /\ patternFetch = [failed |-> TRUE, records |-> <<>>]
  /\ liquidityToken = [kind |-> "thrown", value |-> ""]
  /\ liquidityFetch = [failed |-> TRUE, records |-> <<>>]
  /\ analyses = NoAnalyses
  /\ riskReport = Null

\* execute has verified the token; the replies it will get are drawn
InitScoring ==
  /\ gpc = "verified"
  /\ tokenHolders \in ReportHolderLists
  /\ patternFetch \in TxFetches
  /\ liquidityToken \in TokenOutcomes
  /\ liquidityFetch \in TxFetches
  /\ analyses = NoAnalyses
  /\ riskReport = Null

\* holders are fetched and analyzeHolderConcentration is applied
ScoreHolders ==
  /\ gpc = "verified"
  /\ analyses' = [analyses EXCEPT !.holder = Some(analyzeHolderConcentration(tokenHolders))]
  /\ gpc' = "holders"
  /\ UNCHANGED <<tokenHolders, patternFetch, liquidityToken, liquidityFetch, riskReport>>
  /\ UNCHANGED nonScoreVars

\* analyzeTransactionPatterns returns
ScorePatterns ==
  /\ gpc = "holders"
  /\ analyses' = [analyses EXCEPT !.transaction =
       Some(analyzeTransactionPatterns(getRecentTransactionsOf(patternFetch)))]
  /\ gpc' = "patterns"
  /\ UNCHANGED <<tokenHolders, patternFetch, liquidityToken, liquidityFetch, riskReport>>
  /\ UNCHANGED nonScoreVars

\* analyzeLiquidity returns and execute builds and returns the report
ScoreLiquidity ==
  /\ gpc = "patterns"
  /\ LET liquidityAn == analyzeLiquidity(liquidityToken,
                                        getRecentTransactionsOf(liquidityFetch))
     IN /\ analyses' = [analyses EXCEPT !.liquidity = Some(liquidityAn)]
        /\ riskReport' = Some(reportOf(tokenHolders, analyses.holder[1],
                                       analyses.transaction[1], liquidityAn))
  /\ gpc' = "returned"
  /\ UNCHANGED <<tokenHolders, patternFetch, liquidityToken, liquidityFetch>>
  /\ UNCHANGED nonScoreVars

NextScoring == ScoreHolders \/ ScorePatterns \/ ScoreLiquidity

-----------------------------------------------------------------------------
(* Specifications and properties *)

\* the caches under any interleaving of calls, replies and clock advances
Init == InitCache /\ IdleRetry /\ IdleMatcher /\ IdleHolders /\ IdleRisk /\ IdleNews /\ IdleTx /\ IdleOp /\ IdleScoring
Next == NextCache
Spec == Init /\ [][Next]_vars

\* one call of withRetry
InitRetryCall == InitRetry /\ IdleCache /\ IdleMatcher /\ IdleHolders /\ IdleRisk /\ IdleNews /\ IdleTx /\ IdleOp /\ IdleScoring
SpecRetry == InitRetryCall /\ [][NextRetry]_vars

\* one call of findToken
InitMatcherCall == InitMatcher /\ IdleCache /\ IdleRetry /\ IdleHolders /\ IdleRisk /\ IdleNews /\ IdleTx /\ IdleOp /\ IdleScoring
SpecMatcher == InitMatcherCall /\ [][NextMatcher]_vars

\* one call of analyzeHolderConcentration
InitHoldersCall == InitHolders /\ IdleCache /\ IdleRetry /\ IdleMatcher /\ IdleRisk /\ IdleNews /\ IdleTx /\ IdleOp /\ IdleScoring
SpecHolders == InitHoldersCall /\ [][NextHolders]_vars

\* one merge of the articles of the two news sources
InitNewsCall == InitNews /\ IdleCache /\ IdleRetry /\ IdleMatcher /\ IdleHolders /\ IdleRisk /\ IdleTx /\ IdleOp /\ IdleScoring
SpecNews == InitNewsCall /\ [][NextNews]_vars

\* one call of getRecentTransactions
InitTxCall == InitTx /\ IdleCache /\ IdleRetry /\ IdleMatcher /\ IdleHolders /\ IdleRisk /\ IdleNews /\ IdleOp /\ IdleScoring
SpecTx == InitTxCall /\ [][NextTx]_vars

\* one call of a lookup or of a tool that takes an address
InitOpCall == InitOp /\ IdleCache /\ IdleRetry /\ IdleMatcher /\ IdleHolders /\ IdleRisk /\ IdleNews /\ IdleTx /\ IdleScoring
SpecOp == InitOpCall /\ [][NextOp]_vars

\* the sub-scores and the report of one token risk analysis
InitScoringCall == InitScoring /\ IdleCache /\ IdleRetry /\ IdleMatcher /\ IdleHolders /\ IdleRisk /\ IdleNews /\ IdleTx /\ IdleOp
SpecScoring == InitScoringCall /\ [][NextScoring]_vars

\* the aggregation of one token risk report
InitRiskCall == InitRisk /\ IdleCache /\ IdleRetry /\ IdleMatcher /\ IdleHolders /\ IdleNews /\ IdleTx /\ IdleOp /\ IdleScoring
SpecRisk == InitRiskCall /\ [][NextRisk]_vars

\* the fetches of one cache respect the TTL: once a fetch issued at time t
\* has succeeded, no fetch issued after it started before t + ttl
OneFetchPerTTL(log, ttl) ==
  \A i, j \in 1..Len(log) :
    (i < j /\ log[i].status = "ok") => log[j].at - log[i].at >= ttl

\* C1: for both caches, the get calls that fall within the TTL of a
\* successful fetch issue no further fetch, so that at most one fetch is
\* issued for them, and every call that returns, returns the value stored
\* by the most recent successful fetch.
CacheOneFetchWithinTTL ==
  [][/\ OneFetchPerTTL(tokenFetches', CACHE_DURATION)
     /\ OneFetchPerTTL(newsFetches', NEWS_CACHE_DURATION)
     /\ \A c \in CallIds :
          (tcalls'[c] # tcalls[c] /\ tcalls'[c].pc = "returned")
            => tcalls'[c].value = lastGoodTokens'
     /\ \A c \in CallIds :
          (ncalls'[c] # ncalls[c] /\ ncalls'[c].pc = "returned")
            => /\ newsCache' # Null
               /\ ncalls'[c].value = Some(newsCache'[1].data)]_vars

\* C2: once a getTokenList fetch has succeeded no getTokenList call throws;
\* a call whose fetch fails returns the list of the latest successful fetch
\* and leaves tokenListCache and lastCacheUpdate as they were.
TokenStaleFallback ==
  [][\A c \in CallIds :
       lastGoodTokens # Null =>
         /\ tcalls'[c] # tcalls[c] => tcalls'[c].pc # "thrown"
         /\ (tcalls[c].pc = "fetching" /\ tcalls'[c].pc # "fetching")
              => /\ tcalls'[c].pc = "returned"
                 /\ tcalls'[c].value # Null
                 /\ Len(tcalls'[c].value[1]) > 0
         /\ (\E i \in 1..Len(tokenFetches) :
               /\ tokenFetches[i].call = c
               /\ tokenFetches[i].status = "pending"
               /\ tokenFetches'[i].status = "failed")
              => /\ tcalls'[c].pc = "returned"
                 /\ tcalls'[c].value = lastGoodTokens
                 /\ tokenListCache' = tokenListCache
                 /\ lastCacheUpdate' = lastCacheUpdate
                 /\ tokenListCache' = lastGoodTokens]_vars

\* a refresh of the expired list failed and the call returned the old list
TokenStaleFallbackWitness ==
  \E c \in CallIds :
    /\ tcalls[c].pc = "returned"
    /\ tcalls[c].kind = "stale"
    /\ tcalls[c].value = lastGoodTokens
    /\ tcalls[c].now - lastCacheUpdate >= CACHE_DURATION
    /\ \E i \in 1..Len(tokenFetches) :
         tokenFetches[i].call = c /\ tokenFetches[i].status = "failed"

\* C3: when the cached news response has expired and a source of the
\* refresh fails, getAllNews returns the response that was cached and the
\* cached response is not replaced.
NewsStaleFallback ==
  [][\A c \in CallIds :
       (/\ ncalls[c].pc = "fetching"
        /\ ncalls'[c].pc # "fetching"
        /\ newsCache # Null
        /\ ncalls[c].now - newsCache[1].timestamp >= NEWS_CACHE_DURATION
        /\ (~ncalls[c].crypto[1].ok \/ ~ncalls[c].web3[1].ok))
         => /\ ncalls'[c].value = Some(newsCache[1].data)
            /\ newsCache' = newsCache]_vars

\* C4: when every one of the maxRetries attempts fails, the operation has
\* been invoked exactly maxRetries times and the error thrown is the one
\* raised by the final attempt (the same object when it is an Error
\* instance, its Error wrapping otherwise), never that of an earlier
\* attempt; and a call whose attempts all failed does throw.
RetryExhaustionThrowsLast ==
  /\ rpc = "thrown" =>
        /\ invocations = maxRetries
        /\ Len(raised) = maxRetries
        /\ resolved = <<>>
        /\ outcome.kind = "thrown"
        /\ outcome.error.at = maxRetries
        /\ outcome.error.id = raised[maxRetries].id
        /\ outcome.error.isError
        /\ raised[maxRetries].isError => outcome.error = raised[maxRetries]
  /\ Len(raised) = maxRetries => rpc = "thrown"

\* three attempts (the default) failed with different errors
RetryExhaustionWitness ==
  /\ rpc = "thrown"
  /\ maxRetries = DefaultMaxRetries
  /\ raised[1].id # raised[maxRetries].id
  /\ raised[2].id # raised[maxRetries].id

\* C5: the operation is never invoked more than maxRetries times; once an
\* attempt has succeeded the call has returned that attempt's value, the
\* operation has been invoked exactly k times (k-1 failures and the one
\* success) with k-1 backoff waits, and no invocation or wait follows.
NeverRetriesOnSuccess ==
  /\ invocations <= maxRetries
  /\ Len(resolved) <= 1
  /\ resolved # <<>> =>
        /\ rpc = "returned"
        /\ outcome = [kind |-> "returned", value |-> resolved[1]]
        /\ invocations = Len(raised) + 1
        /\ Len(waits) = Len(raised)
        /\ \A i \in 1..Len(waits) : waits[i] = delayMs * i

\* success on the second attempt of three
NeverRetriesWitness ==
  /\ rpc = "returned"
  /\ maxRetries = DefaultMaxRetries
  /\ invocations = 2
  /\ Len(raised) = 1


\* C6 as stated: with holder score 60, transaction score 80 and liquidity
\* score 70 the overall score is 69 and the risk tier is "MEDIUM".
RiskExampleMedium ==
  (/\ apc = "assessed"
   /\ holderScore = 60 /\ transactionScore = 80 /\ liquidityScore = 70)
    => overallRiskScore = 69 /\ riskLevel = "MEDIUM"

\* C6: with holder score 60, transaction score 80 and liquidity score 70
\* the overall score is 69, and since 69 >= 60 the risk tier is "HIGH".
RiskExampleHigh ==
  (/\ apc = "assessed"
   /\ holderScore = 60 /\ transactionScore = 80 /\ liquidityScore = 70)
    => overallRiskScore = 69 /\ riskLevel = "HIGH"

\* the report of the example has been assessed
RiskExampleWitness ==
  /\ apc = "assessed"
  /\ holderScore = 60 /\ transactionScore = 80 /\ liquidityScore = 70
  /\ overallRiskScore = 69

\* C7: for all sub-scores h, t, l the overall score is
\* 0.4*h + 0.3*t + 0.3*l rounded to the nearest integer, halves rounded up,
\* and the tier is "EXTREMELY HIGH" iff overall >= 80, "HIGH" iff
\* 60 <= overall < 80, "MEDIUM" iff 40 <= overall < 60, "LOW" iff
\* overall < 40.
RiskTierTable ==
  apc = "assessed" =>
    /\ overallRiskScore =
         (4 * holderScore + 3 * transactionScore + 3 * liquidityScore + 5) \div 10
    /\ riskLevel = "EXTREMELY HIGH" <=> overallRiskScore >= 80
    /\ riskLevel = "HIGH" <=> (60 <= overallRiskScore /\ overallRiskScore < 80)
    /\ riskLevel = "MEDIUM" <=> (40 <= overallRiskScore /\ overallRiskScore < 60)
    /\ riskLevel = "LOW" <=> overallRiskScore < 40

\* a weighted sum of 59.5 is rounded up to the threshold 60, which is "HIGH"
RiskTierWitness ==
  /\ apc = "assessed"
  /\ 4 * holderScore + 3 * transactionScore + 3 * liquidityScore = 595
  /\ overallRiskScore = 60
  /\ riskLevel = "HIGH"

\* C8: for a non-empty holder list the score is 100 less 30 iff the top
\* holder's share is > 50%, otherwise less 20 iff it is > 30%, and less 25
\* iff the cumulative share of the first ten holders is > 90%, otherwise
\* less 15 iff it is > 70%, each penalty with its factor; a top share of
\* exactly 50% gets the 20 and one of 50.01% the 30.
HolderThresholdsStrict ==
  (hpc = "returned" /\ Len(holders) > 0) =>
    LET top == holders[1]
        n == IF Len(holders) < 10 THEN Len(holders) ELSE 10
        top10 == Sum(SubSeq(holders, 1, n))
        p30 == top > 5000
        p20 == ~p30 /\ top > 3000
        p25 == top10 > 9000
        p15 == ~p25 /\ top10 > 7000
        kinds == {holderAnalysis.factors[i].kind :
                    i \in 1..Len(holderAnalysis.factors)}
    IN /\ holderAnalysis.score =
            100 - (IF p30 THEN 30 ELSE 0) - (IF p20 THEN 20 ELSE 0)
                - (IF p25 THEN 25 ELSE 0) - (IF p15 THEN 15 ELSE 0)
       /\ "Extreme concentration" \in kinds <=> p30
       /\ "High concentration" \in kinds <=> p20
       /\ "Extreme top 10 concentration" \in kinds <=> p25
       /\ "High top 10 concentration" \in kinds <=> p15
       /\ top = 5000 => p20 /\ ~p30
       /\ top = 5001 => p30

\* a top holder of exactly 50% in a list whose first ten add up to exactly
\* 90%: the lesser penalty of both pairs
HolderThresholdsWitness ==
  /\ hpc = "returned"
  /\ Len(holders) > 0
  /\ holders[1] = 5000
  /\ Sum(holders) = 9000
  /\ holderAnalysis.score = 65

\* the rules of findToken on the call in progress
QueryOf == trim(toLowerCase(searchTerm))
Rule1Ids == {p[2] : p \in {a \in commonTokens : a[1] = QueryOf}}
Rule1(i) == tokens[i].id \in Rule1Ids
Rule2(i) == tokens[i].id = QueryOf
Rule3(i) == toLowerCase(tokens[i].symbol) = QueryOf
Rule4(i) == toLowerCase(tokens[i].name) = QueryOf
FuzzyScore(i) ==
  (IF includes(tokens[i].id, QueryOf) THEN 3 ELSE 0)
  + (IF includes(toLowerCase(tokens[i].symbol), QueryOf) THEN 2 ELSE 0)
  + (IF includes(toLowerCase(tokens[i].name), QueryOf) THEN 1 ELSE 0)
Rule5(i) == FuzzyScore(i) > 0
Fires(R(_)) == \E i \in 1..Len(tokens) : R(i)
FirstOf(R(_)) ==
  tokens[CHOOSE i \in 1..Len(tokens) : R(i) /\ \A j \in 1..(i - 1) : ~R(j)]
NoExactRuleFires ==
  ~Fires(Rule1) /\ ~Fires(Rule2) /\ ~Fires(Rule3) /\ ~Fires(Rule4)

\* C9: findToken returns the entry of the first rule that fires, in the
\* order alias then exact id of the alias target, exact id, exact symbol,
\* exact name (both case-insensitive), fuzzy scoring; an alias whose target
\* is not in the catalog falls through; null is returned exactly when no
\* rule fires.
FirstRuleWins ==
  mpc = "returned" =>
    /\ Fires(Rule1) => found = Some(FirstOf(Rule1))
    /\ (~Fires(Rule1) /\ Fires(Rule2)) => found = Some(FirstOf(Rule2))
    /\ (~Fires(Rule1) /\ ~Fires(Rule2) /\ Fires(Rule3))
         => found = Some(FirstOf(Rule3))
    /\ (~Fires(Rule1) /\ ~Fires(Rule2) /\ ~Fires(Rule3) /\ Fires(Rule4))
         => found = Some(FirstOf(Rule4))
    /\ (NoExactRuleFires /\ Fires(Rule5))
         => \E i \in 1..Len(tokens) : Rule5(i) /\ found = Some(tokens[i])
    /\ found = Null <=> (NoExactRuleFires /\ ~Fires(Rule5))

\* "btc" has an alias whose target is absent, an entry with that id and,
\* before it, an entry with that symbol: the exact id wins
FirstRuleWitness ==
  /\ mpc = "returned"
  /\ searchTerm = <<"b", "t", "c">>
  /\ Len(tokens) >= 2
  /\ tokens[1] = BitName
  /\ tokens[2] = BtcId
  /\ ~Fires(Rule1)
  /\ found = Some(BtcId)

\* C10: when no alias or exact rule fires, an entry scores 3 if its id
\* contains the query, plus 2 if its lowercased symbol does, plus 1 if its
\* lowercased name does; the entry returned has the greatest score among
\* those with a score > 0 and is the earliest of the catalog with that
\* score; "bit" on the catalog bitcoin, bitcoin-cash returns bitcoin.
FuzzyBestEarliest ==
  (mpc = "returned" /\ NoExactRuleFires /\ Fires(Rule5)) =>
    /\ \E i \in 1..Len(tokens) :
         /\ found = Some(tokens[i])
         /\ FuzzyScore(i) > 0
         /\ \A j \in 1..Len(tokens) : FuzzyScore(j) <= FuzzyScore(i)
         /\ \A j \in 1..(i - 1) : FuzzyScore(j) < FuzzyScore(i)
    /\ (searchTerm = <<"b", "i", "t">> /\ tokens = <<Bitcoin, BitcoinCash>>)
         => found = Some(Bitcoin)

\* "bit" on bitcoin-cash, bitcoin: both score 4 and the earlier is returned
FuzzyTieWitness ==
  /\ mpc = "returned"
  /\ searchTerm = <<"b", "i", "t">>
  /\ tokens = <<BitcoinCash, Bitcoin>>
  /\ NoExactRuleFires
  /\ FuzzyScore(1) = 4 /\ FuzzyScore(2) = 4
  /\ found = Some(BitcoinCash)


\* C11: among fuzzy matches id containment outranks symbol and name
\* containment: when no alias or exact rule fires and the id of some
\* catalog entry contains the query, the entry returned is one whose id
\* contains the query, whatever the catalog order.
IdContainmentOutranks ==
  (/\ mpc = "returned"
   /\ NoExactRuleFires
   /\ \E i \in 1..Len(tokens) : includes(tokens[i].id, QueryOf))
    => \E i \in 1..Len(tokens) :
         found = Some(tokens[i]) /\ includes(tokens[i].id, QueryOf)


\* the articles of the two sources in publish-time-descending merged order
MergedOrder ==
  LET fetched == cryptoNews \o web3News
  IN StableSortDesc(fetched, [n \in 1..Len(fetched) |-> fetched[n].publishedAt])
\* two articles share a case-insensitive title or an identical url
Shares(a, b) == toLowerCase(a.title) = toLowerCase(b.title) \/ a.url = b.url
RetainedArticles == newsResponse[1].articles

\* C12 as stated: the article list has no two articles that share a
\* case-insensitive title or a url, and of any two articles of the merged
\* order that do, the earlier one is retained.
DedupEarlierRetained ==
  npc = "merged" =>
    /\ \A i, j \in 1..Len(RetainedArticles) :
         i # j => ~Shares(RetainedArticles[i], RetainedArticles[j])
    /\ \A i, j \in 1..Len(MergedOrder) :
         (i < j /\ Shares(MergedOrder[i], MergedOrder[j]))
           => \E k \in 1..Len(RetainedArticles) : RetainedArticles[k] = MergedOrder[i]

\* C12: the article list has no two articles that share a case-insensitive
\* title or a url; of any two articles of the merged order that do, the
\* later one is dropped, and an article is retained exactly when no earlier
\* article of the merged order shares its title or url, so the earlier of
\* the two is retained unless it is itself dropped for a still earlier one.
DedupFirstOccurrence ==
  npc = "merged" =>
    /\ \A i, j \in 1..Len(RetainedArticles) :
         i # j => ~Shares(RetainedArticles[i], RetainedArticles[j])
    /\ RetainedArticles =
         SelectIndices(MergedOrder,
                       {j \in 1..Len(MergedOrder) :
                          \A i \in 1..(j - 1) : ~Shares(MergedOrder[i], MergedOrder[j])})
    /\ newsResponse[1].totalResults = Len(RetainedArticles)

\* two articles with the same url and differently-cased titles collapsed
\* to the first, and so did two with the same title and different urls
DedupWitness ==
  /\ npc = "merged"
  /\ cryptoNews = <<ArticleDefi>>
  /\ web3News = <<ArticleDefiLower, ArticleDefiUpper>>
  /\ RetainedArticles = <<ArticleDefi>>


\* the words of the retained articles, lowercased, in article order
RECURSIVE WordsOf(_)
WordsOf(articles) ==
  IF articles = <<>> THEN <<>>
  ELSE splitWords(toLowerCase(Head(articles).title \o <<" ">> \o Head(articles).summary))
       \o WordsOf(Tail(articles))
\* the words that count: more than 3 characters and not a stop word
CountedWords ==
  SelectSeq(WordsOf(RetainedArticles), LAMBDA w : Len(w) > 3 /\ w \notin stopWords)
Frequency(w) == Cardinality({i \in 1..Len(CountedWords) : CountedWords[i] = w})
FirstSeen(w) == CHOOSE i \in 1..Len(CountedWords) :
                  CountedWords[i] = w /\ \A j \in 1..(i - 1) : CountedWords[j] # w
Numeral(w) == \A i \in 1..Len(w) : w[i] \in Digits
Topics == newsResponse[1].trendingTopics
DefiWord == <<"d", "e", "f", "i">>
NftWord == <<"n", "f", "t">>
\* at most 5 distinct counted words, by descending frequency, none left out
\* that is more frequent than one returned
TopByFrequency ==
  /\ Len(Topics) <= 5
  /\ \A i \in 1..Len(Topics) : Frequency(Topics[i]) > 0
  /\ \A i, j \in 1..Len(Topics) :
       i < j => Topics[i] # Topics[j] /\ Frequency(Topics[i]) >= Frequency(Topics[j])
  /\ \A k \in 1..Len(CountedWords) :
       (\A i \in 1..Len(Topics) : Topics[i] # CountedWords[k])
         => /\ Len(Topics) = 5
            /\ \A i \in 1..Len(Topics) : Frequency(Topics[i]) >= Frequency(CountedWords[k])

RecordCountPreserved ==
  (xpc = "returned" /\ signatures # Null) =>
    /\ Len(transactions[1]) = Len(signatures[1])
    /\ \A i \in 1..Len(signatures[1]) :
         /\ transactions[1][i].signature = signatures[1][i].signature
         /\ (txPromises[i].pc = "rejected"
             \/ (txPromises[i].pc = "resolved" /\ ~txPromises[i].reply[1].found))
              => /\ transactions[1][i].type = "Unknown"
                 /\ transactions[1][i].amount = 0
                 /\ transactions[1][i].status = "Failed"


\* C15: a malformed address makes each tool that takes an address fail
\* with an error, and no outbound call is issued before that failure.
MalformedAddressFailsFirst ==
  (op \in Tools /\ ~isValidSolanaAddress(opAddress) /\ opc # "called") =>
    /\ opc = "thrown"
    /\ opResult # Null
    /\ opResult[1].kind = "thrown"
    /\ rpcLog = <<>>

\* the token risk report was asked for an address of 31 bytes
MalformedAddressWitness ==
  /\ op = "tokenRiskAnalysisTool"
  /\ opAddress.base58
  /\ opAddress.bytes = 31
  /\ opc = "thrown"
  /\ rpcLog = <<>>

\* the RPC call issued last
LastRpc == rpcLog[Len(rpcLog)]
GoodAccountInfo(reply) == reply.value /\ reply.parsed /\ reply.info

HolderWarning == Factor("Warning: Could not fetch holder distribution data")

\* C19: when the holder list of the token risk report is empty (also when
\* the holder fetch fails) the holder sub-score is 0 with the single factor
\* "No holder data available", no concentration penalty is evaluated, and
\* the report is returned with the holder-distribution warning after the
\* factors of all three sub-scorers; once the holders are fetched the tool
\* no longer throws.
EmptyHoldersReport ==
  /\ (op = "tokenRiskAnalysisTool" /\ locals.holders # Null) => opc # "thrown"
  /\ (op = "tokenRiskAnalysisTool" /\ locals.holders = Some(<<>>)) =>
       /\ locals.holderAnalysis =
            Some([score |-> 0, factors |-> <<Factor("No holder data available")>>])
       /\ opc = "returned" =>
            LET report == opResult[1].value
                scorers == locals.holderAnalysis[1].factors
                             \o locals.transactionAnalysis[1].factors
                             \o locals.liquidityAnalysis[1].factors
            IN /\ opResult[1].kind = "returned"
               /\ report.holderConcentrationScore = 0
               /\ Len(report.riskFactors) > Len(scorers)
               /\ SubSeq(report.riskFactors, 1, Len(scorers)) = scorers
               /\ report.riskFactors[Len(scorers) + 1] = HolderWarning
               /\ \A i \in 1..Len(scorers) : scorers[i] # HolderWarning

\* the holder fetch failed on all three attempts and the report was
\* returned with factors of the other two sub-scorers
EmptyHoldersWitness ==
  /\ op = "tokenRiskAnalysisTool"
  /\ opc = "returned"
  /\ locals.holders = Some(<<>>)
  /\ \E i \in 1..Len(rpcLog) :
       rpcLog[i].call = "getTokenLargestAccounts" /\ rpcLog[i].status = "rejected"
  /\ Len(locals.transactionAnalysis[1].factors) = 3
  /\ Len(locals.liquidityAnalysis[1].factors) = 4
  /\ Len(opResult[1].value.riskFactors) = 9


ArticleSet(list) == {list[i] : i \in 1..Len(list)}

ColdCacheFailureThrows ==
  [][\A c \in CallIds :
       /\ (/\ tcalls[c].pc = "fetching"
           /\ tcalls'[c].pc # "fetching"
           /\ tokenListCache = Null
           /\ \E i \in 1..Len(tokenFetches) :
                /\ tokenFetches[i].call = c
                /\ tokenFetches[i].status = "pending"
                /\ tokenFetches'[i].status = "failed")
            => /\ tcalls'[c].pc = "thrown"
               /\ tcalls'[c].value = Null
               /\ tokenListCache' = Null
               /\ lastCacheUpdate' = lastCacheUpdate
       /\ (/\ tcalls[c].pc # "fetching"
           /\ tcalls'[c] # tcalls[c]
           /\ tokenListCache = Null)
            => /\ tcalls'[c].pc = "fetching"
               /\ tokenFetches' = Append(tokenFetches, Issued(c, clock))]_vars

\* a call failed on the empty cache and the same caller's next call is
\* fetching again
ColdCacheFailureWitness ==
  /\ tokenListCache = Null
  /\ Len(tokenFetches) = 2
  /\ tokenFetches[1].status = "failed"
  /\ tokenFetches[2].status = "pending"
  /\ tokenFetches[2].call = tokenFetches[1].call

\* C20: a getTokenList or getAllNews call that starts on a cache miss
\* while a fetch of an earlier call is pending issues a fetch of its own,
\* so that two fetches of the same cache are in flight.
MissesNotCoalesced ==
  [][\A c \in CallIds :
       /\ (/\ tcalls[c].pc # "fetching"
           /\ tcalls'[c] # tcalls[c]
           /\ ~TokenCacheFresh(clock)
           /\ \E i \in 1..Len(tokenFetches) : tokenFetches[i].status = "pending")
            => /\ tcalls'[c].pc = "fetching"
               /\ tokenFetches' = Append(tokenFetches, Issued(c, clock))
       /\ (/\ ncalls[c].pc # "fetching"
           /\ ncalls'[c] # ncalls[c]
           /\ ~NewsCacheFresh(clock)
           /\ \E i \in 1..Len(newsFetches) : newsFetches[i].status = "pending")
            => /\ ncalls'[c].pc = "fetching"
               /\ newsFetches' = Append(newsFetches, Issued(c, clock))]_vars

\* two coins/list fetches are in flight
TwoFetchesInFlight ==
  /\ Len(tokenFetches) = 2
  /\ tokenFetches[1].status = "pending"
  /\ tokenFetches[2].status = "pending"
  /\ tokenFetches[1].call # tokenFetches[2].call


FactorsOf(list) == {list[i].kind : i \in 1..Len(list)}

\* C21: when the transaction fetch of a token risk analysis fails on all
\* attempts, the transaction-pattern sub-score is 0 and the returned report
\* holds a factor about the missing transaction data.
FailedFetchDegradesPatterns ==
  (patternFetch.failed /\ analyses.transaction # Null) =>
    /\ analyses.transaction[1].score = 0
    /\ gpc = "returned" =>
         /\ riskReport # Null
         /\ FactorsOf(riskReport[1].riskFactors)
              \cap {"Error analyzing transactions",
                    "Warning: Could not fetch transaction data"} # {}

\* C22: when the transactions analyzeLiquidity samples span zero seconds the
\* penalty of fewer than one transaction per day is applied.
ZeroSpanLowFrequency ==
  LET list == getRecentTransactionsOf(liquidityFetch)
  IN (/\ gpc = "returned"
      /\ liquidityToken.kind = "returned"
      /\ Len(list) > 0
      /\ list[1].timestamp = list[Len(list)].timestamp)
       => /\ "Very low transaction frequency (less than 1 tx per day)"
               \in FactorsOf(analyses.liquidity[1].factors)
          /\ riskReport[1].liquidityScore =
               analyzeLiquidity(liquidityToken, list).score

\* C23: each of the three sub-scores and the overall risk score is an
\* integer from 0 to 100, whatever was fetched.
ScoresInRange ==
  /\ \A k \in {"holder", "transaction", "liquidity"} :
       analyses[k] # Null => analyses[k][1].score \in 0..FullScore
  /\ riskReport # Null =>
       /\ riskReport[1].riskScore \in 0..FullScore
       /\ riskReport[1].holderConcentrationScore \in 0..FullScore
       /\ riskReport[1].transactionPatternScore \in 0..FullScore
       /\ riskReport[1].liquidityScore \in 0..FullScore

\* a report with every transaction-pattern penalty, four liquidity
\* penalties and a holder penalty
ScoresInRangeWitness ==
  /\ gpc = "returned"
  /\ riskReport[1].transactionPatternScore = 55
  /\ riskReport[1].liquidityScore <= 30
  /\ riskReport[1].liquidityScore > 0
  /\ riskReport[1].holderConcentrationScore \in 1..99


\* C24: across overlapping getTokenList calls, and across overlapping
\* getAllNews calls, the stored fetch timestamp never decreases: a fetch that
\* started earlier and completed later does not overwrite what a fetch that
\* started later has written.
CacheTimestampMonotone ==
  [][/\ lastCacheUpdate' >= lastCacheUpdate
     /\ (newsCache # Null /\ newsCache' # Null)
          => newsCache'[1].timestamp >= newsCache[1].timestamp]_vars

\* C25: every article that getAllNews drops from the merged list shares a
\* case-insensitive title or a url with an article that is retained.
DroppedSharesWithRetained ==
  npc = "merged" =>
    \A j \in 1..Len(MergedOrder) :
      (\A k \in 1..Len(RetainedArticles) : RetainedArticles[k] # MergedOrder[j])
        => \E k \in 1..Len(RetainedArticles) :
             Shares(MergedOrder[j], RetainedArticles[k])

=============================================================================
